---- MODULE Spec2Model ----
(***************************************************************************)
(* elastic-pii-proxy: the tool pipeline  audit > pii-tool > backend,       *)
(* the two-stage redaction it applies to every text block, and the audit   *)
(* sink.                                                                   *)
(*                                                                         *)
(* Strings are sequences of symbols.  A symbol is one ordinary character   *)
(* or one whole value (an e-mail address, a card number, a person's name)  *)
(* written as a single symbol, so that a pattern of stage 1 matches a      *)
(* symbol as a whole and an NER span covers whole symbols.                 *)
(***************************************************************************)
EXTENDS Integers, Sequences, FiniteSets, TLC

\* ------------------------------------------------------------------ bounds
NumReqs == 2
MaxBlocks == 2
\* the function-level runs: the longest text, in characters, and the
\* largest byte limit the chunking functions are applied with
MaxTextLen == 5
MaxLimit == 3
\* the longest chunk, in characters, that entity spans are reported for,
\* and the most spans reported for one chunk
MaxChunkLen == 4
MaxSpans == 2
\* the most fragments a text given to stage 1 alone is made of
MaxFragments == 2
\* the most members of an array or an object given to redactRecursive
MaxItems == 2

Reqs == 1..NumReqs

\* ----------------------------------------------------------- string helpers
Min(a, b) == IF a < b THEN a ELSE b

\* String.prototype.slice(begin, end) with non-negative arguments
Slice(s, begin, end) ==
  LET b == Min(begin, Len(s))
      e == Min(end, Len(s))
  IN IF e <= b THEN <<>> ELSE SubSeq(s, b + 1, e)

SliceFrom(s, begin) == Slice(s, begin, Len(s))

Range(s) == {s[i] : i \in 1..Len(s)}

\* [...new Set([...a, ...b])]: concatenation with later duplicates dropped
RECURSIVE Dedup(_, _)
Dedup(s, seen) ==
  IF s = <<>> THEN <<>>
  ELSE IF Head(s) \in seen THEN Dedup(Tail(s), seen)
       ELSE <<Head(s)>> \o Dedup(Tail(s), seen \cup {Head(s)})

OrderedUnion(a, b) == Dedup(a \o b, {})

\* ------------------------------------------------------------- the symbols
EMAIL == "john@example.com"
EMAIL_MASK == "j***@example.com"
SSN == "123-45-6789"
SSN_MASK == "***-**-****"
CARD == "4111 1111 1111 1111"
CARD_MASK == "**** **** **** 1111"
CARD_BAD == "1234 5678 9012 3456"
IBAN == "DE89370400440532013000"
IBAN_MASK == "DE89****3000"
IBAN_SHORT == "GB29NWBK"
PHONE == "+31 6 1234 5678"
PHONE_MASK == "+31***78"
PHONE_SHORT == "+1 2 345 678"
PERSON == "John Smith"
AGE == "42 years old"
PLAIN == "hello"
\* a run of 1500 three-byte characters, written as one symbol
FILLER == "1500 x euro sign"

\* the values that are personal data while unmasked
RawPII == {EMAIL, SSN, CARD, IBAN, PHONE, PERSON}

ContainsRawPII(s) == \E i \in 1..Len(s) : s[i] \in RawPII

\* the digits of a symbol (match.replace(/\D/g, ''))
Digits(sym) ==
  CASE sym = CARD -> <<4,1,1,1, 1,1,1,1, 1,1,1,1, 1,1,1,1>>
    [] sym = CARD_BAD -> <<1,2,3,4, 5,6,7,8, 9,0,1,2, 3,4,5,6>>
    [] sym = PHONE -> <<3,1,6,1,2,3,4,5,6,7,8>>
    [] sym = PHONE_SHORT -> <<1,2,3,4,5,6,7,8>>
    [] OTHER -> <<>>

\* match.length of a symbol the iban pattern matches
MatchLength(sym) ==
  CASE sym = IBAN -> 22
    [] sym = IBAN_SHORT -> 8
    [] OTHER -> 1

\* ------------------------------------------------------ stage 1 (patterns)
RECURSIVE luhnSum(_, _, _)
luhnSum(digits, i, alternate) ==
  IF i < 1 THEN 0
  ELSE LET n == digits[i]
           d == IF alternate THEN (IF 2 * n > 9 THEN 2 * n - 9 ELSE 2 * n) ELSE n
       IN d + luhnSum(digits, i - 1, ~alternate)

luhnCheck(digits) == luhnSum(digits, Len(digits), FALSE) % 10 = 0

\* the symbols each pattern's regex matches
regexMatches(name) ==
  CASE name = "credit_card" -> {CARD, CARD_BAD}
    [] name = "iban" -> {IBAN, IBAN_SHORT}
    [] name = "ssn" -> {SSN}
    [] name = "email" -> {EMAIL}
    [] name = "phone" -> {PHONE, PHONE_SHORT}

\* pattern.mask(match)
mask(name, match) ==
  CASE name = "credit_card" ->
         IF Len(Digits(match)) # 16 \/ ~luhnCheck(Digits(match)) THEN match
         ELSE CARD_MASK
    [] name = "iban" -> IF MatchLength(match) < 15 THEN match ELSE IBAN_MASK
    [] name = "ssn" -> SSN_MASK
    [] name = "email" -> EMAIL_MASK
    [] name = "phone" ->
         IF Len(Digits(match)) < 8 THEN match
         ELSE IF match = PHONE THEN PHONE_MASK ELSE "+12***78"

PATTERNS == <<"credit_card", "iban", "ssn", "email", "phone">>

\* result.replace(pattern.regex, ...) for one pattern over the whole string
RECURSIVE replacePattern(_, _)
replacePattern(name, s) ==
  IF s = <<>> THEN [result |-> <<>>, count |-> 0]
  ELSE LET rest == replacePattern(name, Tail(s))
           m == Head(s)
       IN IF m \in regexMatches(name)
          THEN LET masked == mask(name, m)
               IN [result |-> <<masked>> \o rest.result,
                   count |-> rest.count + (IF masked # m THEN 1 ELSE 0)]
          ELSE [result |-> <<m>> \o rest.result, count |-> rest.count]

\* redactString: the patterns one after the other, each on the output of the
\* one before; the types are kept in the order they were first added
RECURSIVE redactStringFrom(_, _, _, _)
redactStringFrom(k, value, count, types) ==
  IF k > Len(PATTERNS) THEN [result |-> value, count |-> count, types |-> types]
  ELSE LET r == replacePattern(PATTERNS[k], value)
       IN redactStringFrom(k + 1, r.result, count + r.count,
            IF r.count > 0 THEN OrderedUnion(types, <<PATTERNS[k]>>) ELSE types)

redactString(value) == redactStringFrom(1, value, 0, <<>>)

\* redactPII on a string
redactPII(data) ==
  LET r == redactString(data)
  IN [redactedData |-> r.result, redactionCount |-> r.count,
      redactedTypes |-> r.types]

\* ---------------------------------------------- redactRecursive (values)
\* A JSON-shaped value: a string, an array, an object (its own keys in
\* enumeration order, with the values beside them) or any other primitive,
\* written as its literal.
StringValue(text) ==
  [kind |-> "string", text |-> text, literal |-> "", keys |-> <<>>, items |-> <<>>]

OtherValue(literal) ==
  [kind |-> "other", text |-> <<>>, literal |-> literal, keys |-> <<>>, items |-> <<>>]

ArrayValue(items) ==
  [kind |-> "array", text |-> <<>>, literal |-> "", keys |-> <<>>, items |-> items]

ObjectValue(keys, items) ==
  [kind |-> "object", text |-> <<>>, literal |-> "", keys |-> keys, items |-> items]

\* result[key] = r on an object literal: a new own property at the end, or
\* the value of the one already there; the key __proto__ reaches the setter
\* of Object.prototype, which adds no own property
setProperty(result, key, r) ==
  IF key = "__proto__" THEN result
  ELSE IF \E i \in 1..Len(result.keys) : result.keys[i] = key
       THEN ObjectValue(result.keys,
                        [i \in 1..Len(result.keys) |->
                           IF result.keys[i] = key THEN r ELSE result.items[i]])
       ELSE ObjectValue(Append(result.keys, key), Append(result.items, r))

RECURSIVE redactRecursive(_)
RECURSIVE redactItems(_, _, _)
RECURSIVE redactEntries(_, _, _)

\* data.map(...) from the i-th item on (acc: the result, count and types so far)
redactItems(data, i, acc) ==
  IF i > Len(data.items) THEN acc
  ELSE LET r == redactRecursive(data.items[i])
       IN redactItems(data, i + 1,
            [result |-> ArrayValue(Append(acc.result.items, r.result)),
             count |-> acc.count + r.count,
             types |-> OrderedUnion(acc.types, r.types)])

\* for (const [key, value] of Object.entries(data)) from the i-th entry on
redactEntries(data, i, acc) ==
  IF i > Len(data.keys) THEN acc
  ELSE LET r == redactRecursive(data.items[i])
       IN redactEntries(data, i + 1,
            [result |-> setProperty(acc.result, data.keys[i], r.result),
             count |-> acc.count + r.count,
             types |-> OrderedUnion(acc.types, r.types)])

\* redactRecursive, with the members added to typesFound as `types`
redactRecursive(data) ==
  CASE data.kind = "string" ->
         LET r == redactString(data.text)
         IN [result |-> StringValue(r.result), count |-> r.count, types |-> r.types]
    [] data.kind = "array" ->
         redactItems(data, 1, [result |-> ArrayValue(<<>>), count |-> 0, types |-> <<>>])
    [] data.kind = "object" ->
         redactEntries(data, 1,
                       [result |-> ObjectValue(<<>>, <<>>), count |-> 0, types |-> <<>>])
    [] OTHER -> [result |-> data, count |-> 0, types |-> <<>>]

\* ------------------------------------- stage 1, character by character
\* Here a string is a sequence of characters and the five regular
\* expressions are matched as the regex engine matches them: leftmost,
\* greedy, giving characters back one at a time.
Digit == {"0", "1", "2", "3", "4", "5", "6", "7", "8", "9"}

Upper ==
  {"A", "B", "C", "D", "E", "F", "G", "H", "I", "J", "K", "L", "M", "N", "O",
   "P", "Q", "R", "S", "T", "U", "V", "W", "X", "Y", "Z"}

Lower ==
  {"a", "b", "c", "d", "e", "f", "g", "h", "i", "j", "k", "l", "m", "n", "o",
   "p", "q", "r", "s", "t", "u", "v", "w", "x", "y", "z"}

\* \s
Space == {" ", "\t", "\n"}

\* \w
Word == Digit \cup Upper \cup Lower \cup {"_"}

\* parseInt(digits[i], 10)
DigitValue(c) ==
  CASE c = "0" -> 0 [] c = "1" -> 1 [] c = "2" -> 2 [] c = "3" -> 3
    [] c = "4" -> 4 [] c = "5" -> 5 [] c = "6" -> 6 [] c = "7" -> 7
    [] c = "8" -> 8 [] c = "9" -> 9

\* the character classes of the five patterns; any other name is the
\* literal character itself
InClass(c, cls) ==
  CASE cls = "\\d" -> c \in Digit
    [] cls = "[\\s-]" -> c \in Space \cup {"-"}
    [] cls = "[\\s.-]" -> c \in Space \cup {".", "-"}
    [] cls = "[A-Z]" -> c \in Upper
    [] cls = "[A-Z0-9]" -> c \in Upper \cup Digit
    [] cls = "[a-zA-Z0-9._%+-]" -> c \in Lower \cup Upper \cup Digit \cup {".", "_", "%", "+", "-"}
    [] cls = "[a-zA-Z0-9.-]" -> c \in Lower \cup Upper \cup Digit \cup {".", "-"}
    [] cls = "[a-zA-Z]" -> c \in Lower \cup Upper
    [] OTHER -> c = cls

\* cls{min,max}; cls{min,} when unbounded
Rep(cls, min, max) == [cls |-> cls, min |-> min, max |-> max, unbounded |-> FALSE]
AtLeast(cls, min) == [cls |-> cls, min |-> min, max |-> min, unbounded |-> TRUE]

\* pattern.regex, as the sequence of its repeated classes between the
\* word-boundary assertions it starts and ends with
regex(name) ==
  CASE name = "credit_card" ->
         [leadingB |-> TRUE, trailingB |-> TRUE,
          elems |-> <<Rep("\\d", 4, 4), Rep("[\\s-]", 0, 1), Rep("\\d", 4, 4), Rep("[\\s-]", 0, 1),
                      Rep("\\d", 4, 4), Rep("[\\s-]", 0, 1), Rep("\\d", 4, 4)>>]
    [] name = "iban" ->
         [leadingB |-> TRUE, trailingB |-> TRUE,
          elems |-> <<Rep("[A-Z]", 2, 2), Rep("\\d", 2, 2), Rep("[A-Z0-9]", 4, 30)>>]
    [] name = "ssn" ->
         [leadingB |-> TRUE, trailingB |-> TRUE,
          elems |-> <<Rep("\\d", 3, 3), Rep("-", 1, 1), Rep("\\d", 2, 2), Rep("-", 1, 1),
                      Rep("\\d", 4, 4)>>]
    [] name = "email" ->
         [leadingB |-> TRUE, trailingB |-> TRUE,
          elems |-> <<AtLeast("[a-zA-Z0-9._%+-]", 1), Rep("@", 1, 1),
                      AtLeast("[a-zA-Z0-9.-]", 1), Rep(".", 1, 1), AtLeast("[a-zA-Z]", 2)>>]
    [] name = "phone" ->
         [leadingB |-> FALSE, trailingB |-> TRUE,
          elems |-> <<Rep("+", 1, 1), Rep("\\d", 1, 3), Rep("[\\s.-]", 0, 1), Rep("\\d", 1, 1),
                      Rep("[\\s.-]", 0, 1), Rep("\\d", 3, 4), Rep("[\\s.-]", 0, 1),
                      Rep("\\d", 3, 4)>>]

\* \b at position p (p characters precede it): of the character before
\* and the character after, exactly one is a word character
Boundary(s, p) ==
  (p >= 1 /\ s[p] \in Word) # (p < Len(s) /\ s[p + 1] \in Word)

Greatest(S) == CHOOSE x \in S : \A y \in S : y <= x
Least(S) == CHOOSE x \in S : \A y \in S : x <= y

\* how many characters from position p on are in the class, up to the
\* element's maximum
Run(el, s, p) ==
  LET cap == IF el.unbounded THEN Len(s) - p ELSE Min(el.max, Len(s) - p)
  IN Greatest({n \in 0..cap : \A i \in 1..n : InClass(s[p + i], el.cls)})

\* the end of the match of the elements from the k-th on at position p, or
\* -1: each element takes as many characters as it can and gives them back
\* one by one while the rest fails to match
RECURSIVE matchFrom(_, _, _, _)
matchFrom(re, k, s, p) ==
  IF k > Len(re.elems)
  THEN IF re.trailingB /\ ~Boundary(s, p) THEN -1 ELSE p
  ELSE LET el == re.elems[k]
           counts == {n \in el.min..Run(el, s, p) :
                        matchFrom(re, k + 1, s, p + n) >= 0}
       IN IF counts = {} THEN -1
          ELSE matchFrom(re, k + 1, s, p + Greatest(counts))

\* the end of the regex's match starting at position p, or -1
execAt(re, s, p) ==
  IF re.leadingB /\ ~Boundary(s, p) THEN -1 ELSE matchFrom(re, 1, s, p)

\* match.replace(/\D/g, '')
digitsOf(match) == SelectSeq(match, LAMBDA c : c \in Digit)

\* match.slice(-n)
Last(s, n) == SubSeq(s, Len(s) - Min(n, Len(s)) + 1, Len(s))

Includes(s, c) == \E i \in 1..Len(s) : s[i] = c

\* the part of s before the first c, and the part after it
BeforeFirst(s, c) ==
  IF Includes(s, c)
  THEN SubSeq(s, 1, Least({i \in 1..Len(s) : s[i] = c}) - 1)
  ELSE s

AfterFirst(s, c) == SubSeq(s, Len(BeforeFirst(s, c)) + 2, Len(s))

Stars(n) == [i \in 1..n |-> "*"]

\* pattern.mask(match), character by character
maskChars(name, match) ==
  CASE name = "credit_card" ->
         LET digits == digitsOf(match)
             sep == IF Includes(match, "-") THEN <<"-">>
                    ELSE IF Includes(match, " ") THEN <<" ">> ELSE <<>>
         IN IF Len(digits) # 16
               \/ ~luhnCheck([i \in 1..Len(digits) |-> DigitValue(digits[i])])
            THEN match
            ELSE Stars(4) \o sep \o Stars(4) \o sep \o Stars(4) \o sep \o Last(digits, 4)
    [] name = "iban" ->
         IF Len(match) < 15 THEN match
         ELSE Slice(match, 0, 4) \o Stars(4) \o Last(match, 4)
    [] name = "ssn" ->
         Stars(3) \o <<"-">> \o Stars(2) \o <<"-">> \o Stars(4)
    [] name = "email" ->
         LET local == BeforeFirst(match, "@")
             domain == BeforeFirst(AfterFirst(match, "@"), "@")
         IN <<local[1]>> \o Stars(3) \o <<"@">> \o domain
    [] name = "phone" ->
         LET digits == digitsOf(match)
         IN IF Len(digits) < 8 THEN match
            ELSE <<"+">> \o Slice(digits, 0, 2) \o Stars(3) \o Last(digits, 2)

\* (mutant) every match is counted, changed or not
changedAlways(masked, match) == TRUE

\* masked !== match
changed(masked, match) == masked # match

\* the first position from p on at which the regex matches, or the length
\* of s when it matches nowhere
nextMatch(re, s, p) ==
  LET at == {q \in p..(Len(s) - 1) : execAt(re, s, q) > q}
  IN IF at = {} THEN Len(s) ELSE Least(at)

\* result.replace(pattern.regex, ...) from position p on: the new string,
\* the count of changed matches, and every match with what it became
RECURSIVE replaceChars(_, _, _)
replaceChars(name, s, p) ==
  LET q == nextMatch(regex(name), s, p)
  IN IF q >= Len(s)
     THEN [result |-> SliceFrom(s, p), count |-> 0, matches |-> <<>>]
     ELSE LET e == execAt(regex(name), s, q)
              match == SubSeq(s, q + 1, e)
              masked == maskChars(name, match)
              rest == replaceChars(name, s, e)
          IN [result |-> Slice(s, p, q) \o masked \o rest.result,
              count |-> rest.count + (IF changed(masked, match) THEN 1 ELSE 0),
              matches |-> <<[name |-> name, match |-> match, masked |-> masked,
                             added |-> changed(masked, match)]>>
                            \o rest.matches]

\* redactString, character by character: the patterns one after the other,
\* each on the output of the one before
RECURSIVE redactCharsFrom(_, _, _, _, _)
redactCharsFrom(k, value, count, types, matches) ==
  IF k > Len(PATTERNS)
  THEN [result |-> value, count |-> count, types |-> types, matches |-> matches]
  ELSE LET r == replaceChars(PATTERNS[k], value, 0)
       IN redactCharsFrom(k + 1, r.result, count + r.count,
            IF \E i \in 1..Len(r.matches) : r.matches[i].added
            THEN OrderedUnion(types, <<PATTERNS[k]>>) ELSE types,
            matches \o r.matches)

redactChars(value) == redactCharsFrom(1, value, 0, <<>>, <<>>)

\* ------------------------------------------------------- stage 2 (NER)
CHUNK_BYTE_LIMIT == 4500

REDACT_TYPES ==
  {"NAME", "ADDRESS", "DATE_TIME", "AGE", "USERNAME", "PASSWORD", "IP_ADDRESS",
   "BANK_ACCOUNT_NUMBER", "PASSPORT_NUMBER", "DRIVER_ID", "AWS_ACCESS_KEY",
   "MAC_ADDRESS"}

NEWLINE == "\n"

\* bytes of one symbol in UTF-8
Bytes(sym) ==
  CASE sym = "e-acute" -> 2
    [] sym = FILLER -> 4500
    [] OTHER -> 1

\* encoder.encode(text).length
RECURSIVE ByteLen(_)
ByteLen(s) == IF s = <<>> THEN 0 ELSE Bytes(Head(s)) + ByteLen(Tail(s))

\* text.split('\n')
RECURSIVE splitLines(_, _)
splitLines(s, line) ==
  IF s = <<>> THEN <<line>>
  ELSE IF Head(s) = NEWLINE THEN <<line>> \o splitLines(Tail(s), <<>>)
       ELSE splitLines(Tail(s), Append(line, Head(s)))

\* chunks.join('\n')
RECURSIVE joinLines(_)
joinLines(chunks) ==
  IF chunks = <<>> THEN <<>>
  ELSE IF Len(chunks) = 1 THEN chunks[1]
       ELSE chunks[1] \o <<NEWLINE>> \o joinLines(Tail(chunks))

\* (mutant) the search is left out: the split point is where it started
splitPointNoSearch(remaining, lo, hi, limit) == lo

\* the binary search of chunkText for the split point of an over-long line
RECURSIVE splitPoint(_, _, _, _)
splitPoint(remaining, lo, hi, limit) ==
  IF ~(lo < hi - 1) THEN lo
  ELSE LET mid == (lo + hi) \div 2
       IN IF ByteLen(Slice(remaining, 0, mid)) <= limit
          THEN splitPoint(remaining, mid, hi, limit)
          ELSE splitPoint(remaining, lo, mid, limit)

\* the while loop of chunkText that cuts an over-long line
RECURSIVE splitLongLine(_, _, _)
splitLongLine(remaining, chunks, limit) ==
  IF ~(ByteLen(remaining) > limit)
  THEN [chunks |-> chunks, current |-> remaining]
  ELSE LET lo == splitPoint(remaining, 0, Len(remaining), limit)
       IN splitLongLine(SliceFrom(remaining, lo),
                        Append(chunks, Slice(remaining, 0, lo)), limit)

\* the for loop of chunkText over the lines
RECURSIVE chunkLines(_, _, _, _)
chunkLines(lines, chunks, current, limit) ==
  IF lines = <<>>
  THEN IF current # <<>> THEN Append(chunks, current) ELSE chunks
  ELSE LET line == Head(lines)
           candidate == IF current # <<>> THEN current \o <<NEWLINE>> \o line
                        ELSE line
       IN IF ByteLen(candidate) > limit
          THEN IF current # <<>>
               THEN chunkLines(Tail(lines), Append(chunks, current), line, limit)
               ELSE LET r == splitLongLine(line, chunks, limit)
                    IN chunkLines(Tail(lines), r.chunks, r.current, limit)
          ELSE chunkLines(Tail(lines), chunks, candidate, limit)

chunkTextL(text, limit) ==
  IF ByteLen(text) <= limit THEN <<text>>
  ELSE chunkLines(splitLines(text, <<>>), <<>>, <<>>, limit)

chunkText(text) == chunkTextL(text, CHUNK_BYTE_LIMIT)

\* `[REDACTED:${type}]`
RedactedLiteral(type) == <<"[REDACTED:", type, "]">>

\* entities.filter(...): a reported entity has its three fields defined
relevantEntities(entities) ==
  SelectSeq(entities, LAMBDA e : e.Type \in REDACT_TYPES)

\* .sort((a, b) => b.BeginOffset - a.BeginOffset): stable, descending
RECURSIVE insertDescending(_, _)
insertDescending(e, sorted) ==
  IF sorted = <<>> THEN <<e>>
  ELSE IF Head(sorted).BeginOffset >= e.BeginOffset
       THEN <<Head(sorted)>> \o insertDescending(e, Tail(sorted))
       ELSE <<e>> \o sorted

\* (mutant) the entities are spliced in the order the provider gave them
sortAsReported(entities, sorted) == entities

RECURSIVE sortDescending(_, _)
sortDescending(entities, sorted) ==
  IF entities = <<>> THEN sorted
  ELSE sortDescending(Tail(entities), insertDescending(Head(entities), sorted))

RECURSIVE spliceAll(_, _, _)
spliceAll(redacted, relevant, types) ==
  IF relevant = <<>> THEN [redacted |-> redacted, types |-> types]
  ELSE LET e == Head(relevant)
       IN spliceAll(Slice(redacted, 0, e.BeginOffset) \o RedactedLiteral(e.Type)
                      \o SliceFrom(redacted, e.EndOffset),
                    Tail(relevant), OrderedUnion(types, <<e.Type>>))

applyRedactions(text, entities) ==
  LET relevant == sortDescending(relevantEntities(entities), <<>>)
      r == spliceAll(text, relevant, <<>>)
  IN [redacted |-> r.redacted, count |-> Len(relevant), types |-> r.types]

\* the characters of a type name
TypeChars(type) ==
  CASE type = "NAME" -> <<"N", "A", "M", "E">>
    [] type = "ADDRESS" -> <<"A", "D", "D", "R", "E", "S", "S">>

\* `[REDACTED:${type}]`, character by character
RedactedChars(type) ==
  <<"[", "R", "E", "D", "A", "C", "T", "E", "D", ":">> \o TypeChars(type)
    \o <<"]">>

\* the for loop of applyRedactions on a string of characters: every slice
\* is taken from the string as the spans before it left it
RECURSIVE spliceChars(_, _, _)
spliceChars(redacted, relevant, types) ==
  IF relevant = <<>> THEN [redacted |-> redacted, types |-> types]
  ELSE LET e == Head(relevant)
       IN spliceChars(Slice(redacted, 0, e.BeginOffset) \o RedactedChars(e.Type)
                        \o SliceFrom(redacted, e.EndOffset),
                      Tail(relevant), OrderedUnion(types, <<e.Type>>))

\* applyRedactions with the placeholder written out in characters
applyRedactionsChars(text, entities) ==
  LET relevant == sortDescending(relevantEntities(entities), <<>>)
      r == spliceChars(text, relevant, <<>>)
  IN [redacted |-> r.redacted, count |-> Len(relevant), types |-> r.types]

\* text.slice(0, 4500) of the pre-filter, the number as a parameter
preFilterTextL(text, n) == Slice(text, 0, n)

\* the Text of the ContainsPiiEntitiesCommand
preFilterText(text) == preFilterTextL(text, 4500)

\* (mutant) stage 2 is handed the text as it came from upstream
stage2InputRaw(data, stage1) == data

\* redactPIIDeep: what redactRecursiveDeep is called on
stage2Input(data, stage1) == stage1.redactedData

\* ------------------------------------------------- requests and responses
NoSummary == [present |-> FALSE, redactionCount |-> 0, redactedTypes |-> <<>>]

Summary(count, types) ==
  [present |-> TRUE, redactionCount |-> count, redactedTypes |-> types]

TextBlock(text, annotations) ==
  [type |-> "text", text |-> text, payload |-> annotations]

ImageBlock(data) == [type |-> "image", text |-> <<>>, payload |-> data]

ContentResponse(content, hasIsError, isError) ==
  [shape |-> "content", content |-> content, hasIsError |-> hasIsError,
   isError |-> isError, toolResult |-> <<>>]

LegacyResponse(toolResult) ==
  [shape |-> "legacy", content |-> <<>>, hasIsError |-> FALSE,
   isError |-> FALSE, toolResult |-> toolResult]

NoResponse ==
  [shape |-> "none", content |-> <<>>, hasIsError |-> FALSE,
   isError |-> FALSE, toolResult |-> <<>>]

\* a thrown value: an Error object with a message, or any other value
\* (`string` is String(err): "Error: <message>" for an Error object)
Thrown(instanceofError, message) ==
  [instanceofError |-> instanceofError, message |-> message,
   string |-> IF instanceofError THEN <<"Error: ">> \o message ELSE message]

\* ------------------------------------------------------------ input sets
ProfileInputs ==
  { [name |-> "GDPR", stage1 |-> TRUE, stage2 |-> TRUE],
    [name |-> "DORA", stage1 |-> TRUE, stage2 |-> FALSE],
    [name |-> "NONE", stage1 |-> FALSE, stage2 |-> FALSE],
    [name |-> "NER_ONLY", stage1 |-> FALSE, stage2 |-> TRUE] }

ConfigInputs == [auditEnabled : BOOLEAN, comprehendEnabled : BOOLEAN]

ArgumentInputs ==
  { [defined |-> FALSE, body |-> <<>>],
    [defined |-> TRUE, body |-> <<>>],
    [defined |-> TRUE, body |-> <<"q", EMAIL>>] }

BlockInputs ==
  { TextBlock(<<EMAIL, PLAIN>>, "audience:user"),
    TextBlock(<<PERSON, SSN>>, "none"),
    TextBlock(<<FILLER, NEWLINE, AGE, PERSON>>, "none"),
    ImageBlock("base64data") }

RECURSIVE SeqsUpTo(_, _)
SeqsUpTo(S, n) ==
  IF n = 0 THEN {<<>>}
  ELSE LET shorter == SeqsUpTo(S, n - 1)
       IN shorter \cup {Append(q, x) : q \in shorter, x \in S}

ResponseInputs ==
  {LegacyResponse(<<EMAIL>>)}
    \cup {ContentResponse(c, FALSE, FALSE) : c \in SeqsUpTo(BlockInputs, MaxBlocks)}
    \cup {ContentResponse(c, TRUE, e) : c \in SeqsUpTo(BlockInputs, MaxBlocks),
                                        e \in BOOLEAN}

\* the responses of the runs with several requests in flight
ConcResponseInputs ==
  { ContentResponse(<<TextBlock(<<EMAIL, PLAIN>>, "none")>>, FALSE, FALSE),
    ContentResponse(<<TextBlock(<<PERSON, SSN>>, "none")>>, FALSE, FALSE),
    ContentResponse(<<TextBlock(<<EMAIL>>, "none")>>, TRUE, TRUE) }

\* the arguments of the runs with several requests in flight
ConcArgumentInputs == { [defined |-> TRUE, body |-> <<"q", PLAIN>>] }

BackendErrorInputs ==
  { Thrown(TRUE, <<"upstream down">>), Thrown(FALSE, <<"timeout">>) }

NerErrorInputs == { Thrown(TRUE, <<"ThrottlingException">>) }

LabelInputs ==
  { [defined |-> FALSE, Labels |-> <<>>],
    [defined |-> TRUE, Labels |-> <<>>],
    [defined |-> TRUE, Labels |-> <<"NAME">>] }

\* what the provider may report for a symbol: its entity type
EntityType(sym) ==
  CASE sym = PERSON -> "NAME"
    [] sym = AGE -> "AGE"
    [] sym \in {CARD_BAD, CARD_MASK} -> "CREDIT_DEBIT_NUMBER"
    [] sym \in {SSN_MASK, SSN} -> "SSN"
    [] OTHER -> "NONE"

\* the entity lists the provider may return for a chunk: any selection of
\* the entities present, in text order
RECURSIVE EntityListsFrom(_, _)
EntityListsFrom(chunk, i) ==
  IF i > Len(chunk) THEN {<<>>}
  ELSE LET rest == EntityListsFrom(chunk, i + 1)
       IN IF EntityType(chunk[i]) = "NONE" THEN rest
          ELSE rest \cup
               { <<[Type |-> EntityType(chunk[i]), BeginOffset |-> i - 1,
                    EndOffset |-> i]>> \o l : l \in rest }

EntityLists(chunk) == EntityListsFrom(chunk, 1)

\* ------------------------------------------------------ composition kernel
\* startProxy(client, { toolMiddleware: [piiToolMW, auditMW] })
toolMiddleware == <<"pii", "audit">>

\* (mutant) the first element of the list taken as the outermost layer
OnionFirstOutermost(mws) == mws

\* the layers outermost first: the first element of the list processes the
\* response first, so the last element is the outermost layer
Onion(mws) == [i \in 1..Len(mws) |-> mws[Len(mws) + 1 - i]]

EnterEvent(layer) == IF layer = "audit" THEN "audit-enter" ELSE "pii-enter"
ExitEvent(layer) == IF layer = "audit" THEN "audit-exit" ELSE "pii-exit"

EnterEvents(order) == [i \in 1..Len(order) |-> EnterEvent(order[i])]

\* --------------------------------------------------------- audit middleware
MAX_INPUT_LOG_LENGTH == 500

\* JSON.stringify(req.params.arguments ?? {})
jsonStringifyArguments(arguments) ==
  IF arguments.defined THEN <<"{">> \o arguments.body \o <<"}">>
  ELSE <<"{", "}">>

serializeBlock(b) ==
  <<"{", b.type>> \o (IF b.type = "text" THEN b.text ELSE <<b.payload>>) \o <<"}">>

RECURSIVE serializeContent(_)
serializeContent(content) ==
  IF content = <<>> THEN <<>>
  ELSE serializeBlock(Head(content)) \o serializeContent(Tail(content))

\* JSON.stringify(result)
jsonStringifyResult(result) ==
  IF result.shape = "content"
  THEN <<"{", "content", "[">> \o serializeContent(result.content) \o <<"]">>
         \o (IF result.hasIsError
             THEN <<"isError", IF result.isError THEN "true" ELSE "false">>
             ELSE <<>>) \o <<"}">>
  ELSE <<"{", "toolResult">> \o result.toolResult \o <<"}">>

\* err instanceof Error ? err.message : String(err)
errorMessage(err) == IF err.instanceofError THEN err.message ELSE err.string

\* (mutant) the catch branch logs String(err) instead of err.message
errorEntryStringified(request, profileName, err) ==
  [upstream_tool |-> request.name,
   compliance_profile |-> profileName,
   input_parameters |-> jsonStringifyArguments(request.arguments),
   output_size_bytes |-> 0,
   redaction_count |-> 0,
   redacted_types |-> <<>>,
   status |-> "error",
   hasErrorMessage |-> TRUE,
   error_message |-> err.string]

\* the entry logged in the catch branch (timestamp and execution time, two
\* clock readings, are left out of the entry)
errorEntry(request, profileName, err) ==
  [upstream_tool |-> request.name,
   compliance_profile |-> profileName,
   input_parameters |-> jsonStringifyArguments(request.arguments),
   output_size_bytes |-> 0,
   redaction_count |-> 0,
   redacted_types |-> <<>>,
   status |-> "error",
   hasErrorMessage |-> TRUE,
   error_message |-> errorMessage(err)]

\* (mutant) the success branch never reads the request annotation
successEntryNoAnnotation(request, profileName, result) ==
  [upstream_tool |-> request.name,
   compliance_profile |-> profileName,
   input_parameters |-> jsonStringifyArguments(request.arguments),
   output_size_bytes |-> ByteLen(jsonStringifyResult(result)),
   redaction_count |-> 0,
   redacted_types |-> <<>>,
   status |-> IF result.hasIsError /\ result.isError THEN "error" ELSE "success",
   hasErrorMessage |-> FALSE,
   error_message |-> <<>>]

\* (mutant) the success branch logs status success whatever isError says
successEntryAlwaysSuccess(request, profileName, result) ==
  [upstream_tool |-> request.name,
   compliance_profile |-> profileName,
   input_parameters |-> jsonStringifyArguments(request.arguments),
   output_size_bytes |-> ByteLen(jsonStringifyResult(result)),
   redaction_count |-> request._piiRedaction.redactionCount,
   redacted_types |-> request._piiRedaction.redactedTypes,
   status |-> "success",
   hasErrorMessage |-> FALSE,
   error_message |-> <<>>]

\* the entry logged after next(req) returned
successEntry(request, profileName, result) ==
  LET pii == IF request._piiRedaction.present THEN request._piiRedaction
             ELSE [present |-> FALSE, redactionCount |-> 0, redactedTypes |-> <<>>]
  IN [upstream_tool |-> request.name,
      compliance_profile |-> profileName,
      input_parameters |-> jsonStringifyArguments(request.arguments),
      output_size_bytes |-> ByteLen(jsonStringifyResult(result)),
      redaction_count |-> pii.redactionCount,
      redacted_types |-> pii.redactedTypes,
      status |-> IF result.hasIsError /\ result.isError THEN "error" ELSE "success",
      hasErrorMessage |-> FALSE,
      error_message |-> <<>>]

\* (mutant) the catch branch throws again without logging
auditLogCallsNoCatch(request, produced, profileName) ==
  IF produced.kind = "throw" THEN <<>>
  ELSE <<successEntry(request, profileName, produced.value)>>

\* the logger.log calls of one run of the audit middleware, given what
\* next(req) produced
auditLogCalls(request, produced, profileName) ==
  IF produced.kind = "throw"
  THEN <<errorEntry(request, profileName, produced.value)>>
  ELSE <<successEntry(request, profileName, produced.value)>>

\* (mutant) the catch branch logs and then returns an empty response
auditOutcomeSwallowing(produced) ==
  IF produced.kind = "throw" THEN [kind |-> "return", value |-> NoResponse]
  ELSE produced

\* what the audit middleware itself produces: `throw err` / `return result`
auditOutcome(produced) == produced

\* (mutant) the input is cut without the suffix being added
AuditLoggerLogCutOnly(enabled, written, entry, max) ==
  IF ~enabled THEN written
  ELSE Append(written,
              [json |-> [entry EXCEPT !.input_parameters = Slice(@, 0, max)],
               end |-> NEWLINE])

\* (mutant) the serialized entry and the line break reach the writer in two
\* calls
AuditLoggerLogTwoWrites(enabled, written, entry, max) ==
  IF ~enabled THEN written
  ELSE written
         \o <<[json |-> [entry EXCEPT !.input_parameters =
                           IF Len(@) > max
                           THEN Slice(@, 0, max) \o <<"...[truncated]">>
                           ELSE @],
               end |-> ""],
              [json |-> [entry EXCEPT !.input_parameters = <<>>],
               end |-> NEWLINE]>>

\* (mutant) the entry is written whatever the configuration says
AuditLoggerLogAlways(enabled, written, entry, max) ==
  Append(written,
         [json |-> [entry EXCEPT !.input_parameters =
                      IF Len(@) > max THEN Slice(@, 0, max) \o <<"...[truncated]">>
                      ELSE @],
          end |-> NEWLINE])

\* AuditLogger.log, the length the input is cut at as a parameter: the sink
\* after the call.  One call of the writer appends one element, the
\* serialized entry and the line break behind it.
AuditLoggerLogL(enabled, written, entry, max) ==
  IF ~enabled THEN written
  ELSE LET sanitized ==
             [entry EXCEPT !.input_parameters =
                IF Len(entry.input_parameters) > max
                THEN Slice(entry.input_parameters, 0, max)
                       \o <<"...[truncated]">>
                ELSE entry.input_parameters]
       IN Append(written, [json |-> sanitized, end |-> NEWLINE])

AuditLoggerLog(enabled, written, entry) ==
  AuditLoggerLogL(enabled, written, entry, MAX_INPUT_LOG_LENGTH)

RECURSIVE logAll(_, _, _)
logAll(enabled, written, entries) ==
  IF entries = <<>> THEN written
  ELSE logAll(enabled, AuditLoggerLog(enabled, written, Head(entries)),
              Tail(entries))

\* ------------------------------------------------------ PII tool middleware
hasToolContent(result) == result.shape = "content"

\* (mutant) the isError early return is missing
piiPassesThroughLegacyOnly(result) == ~hasToolContent(result)

\* the two early returns of the middleware: legacy shape, error response
piiPassesThrough(result) ==
  \/ ~hasToolContent(result)
  \/ (result.hasIsError /\ result.isError)

\* redactText: which redaction a text gets
redactTextPlan(prof, conf) ==
  IF ~prof.stage1 THEN "none"
  ELSE IF prof.stage2 /\ conf.comprehendEnabled THEN "deep"
       ELSE "regex"

\* (mutant) the block's result replaces what was accumulated
mergeResultsLast(acc, r) ==
  [redactionCount |-> r.redactionCount, redactedTypes |-> r.redactedTypes]

mergeResults(acc, r) ==
  [redactionCount |-> acc.redactionCount + r.redactionCount,
   redactedTypes |-> OrderedUnion(acc.redactedTypes, r.redactedTypes)]

\* { ...block, text: r.redactedData }
redactedBlock(block, text) == [block EXCEPT !.text = text]

\* (mutant) non-text blocks are skipped without being pushed
RECURSIVE skipNonTextDropping(_, _, _)
skipNonTextDropping(content, i, out) ==
  IF i > Len(content) \/ content[i].type = "text" THEN [i |-> i, out |-> out]
  ELSE skipNonTextDropping(content, i + 1, out)

\* the for loop up to the next text block: non-text blocks are pushed as
\* they are
RECURSIVE skipNonText(_, _, _)
skipNonText(content, i, out) ==
  IF i > Len(content) \/ content[i].type = "text" THEN [i |-> i, out |-> out]
  ELSE skipNonText(content, i + 1, Append(out, content[i]))

\* the entity types of the active profile: the five of the registry's GDPR
\* row, every type of the wrapper for a profile that names none
comprehendEntityTypes(prof) ==
  IF prof.name = "GDPR"
  THEN {"NAME", "ADDRESS", "DATE_TIME", "PASSPORT_NUMBER", "DRIVER_ID"}
  ELSE REDACT_TYPES

\* loadConfig: process.env.COMPLIANCE_PROFILE ?? 'GDPR'
complianceProfile(env) == IF env.defined THEN env.value ELSE "GDPR"

PROFILE_NAMES == {"GDPR", "DORA", "PCI_DSS", "full"}

\* the registry: the stages of each named profile
PROFILES(name) ==
  [name |-> name, stage1 |-> TRUE, stage2 |-> name \in {"GDPR", "full"}]

\* (mutant) an unknown name falls back without a warning
getProfileSilent(name) ==
  IF name \in PROFILE_NAMES THEN [profile |-> PROFILES(name), stderr |-> <<>>]
  ELSE [profile |-> PROFILES("GDPR"), stderr |-> <<>>]

\* getProfile: the profile returned and what is written to process.stderr
getProfile(name) ==
  IF name \in PROFILE_NAMES THEN [profile |-> PROFILES(name), stderr |-> <<>>]
  ELSE [profile |-> PROFILES("GDPR"),
        stderr |-> <<<<"Unknown compliance profile", name>>>>]

\* (mutant) the summary is kept in one slot shared by all requests
attachShared(requests, r, accumulated) ==
  [q \in DOMAIN requests |->
     [requests[q] EXCEPT !._piiRedaction =
        Summary(accumulated.redactionCount, accumulated.redactedTypes)]]

\* req._piiRedaction = accumulated
attach(requests, r, accumulated) ==
  [requests EXCEPT ![r]._piiRedaction =
     Summary(accumulated.redactionCount, accumulated.redactedTypes)]

NoResult == [redactedData |-> <<>>, redactionCount |-> 0, redactedTypes |-> <<>>]

\* -------------------------------------------------------------- the state
VARIABLES
  config,    \* ProxyConfig: auditEnabled, comprehendEnabled
  profile,   \* the active ComplianceProfile
  pc,        \* per request: where its pipeline is suspended
  req,       \* per request: the request object, with its _piiRedaction slot
  stack,     \* per request: the layers awaiting their next(req), outermost first
  ret,       \* per request: what the innermost finished call produced
  upstream,  \* per request: the response the backend returned
  walk,      \* per request: the locals of the PII middleware's loop
  ner,       \* per request: the locals of redactPIIDeep / redactStringWithComprehend
  events,    \* per request: the pipeline events so far
  stages,    \* per request: for each text block started, the stages it got
  nerLog,    \* per request: the texts sent to the NER client
  calls,     \* per request: the entries passed to logger.log
  sink,      \* the lines written to the audit sink
  fn,        \* a function of the redaction library applied on its own:
             \* its name, its input and, once applied, its output
  res,       \* the resource pipeline: the read in flight, its items' promises
  chunker    \* chunkText run step by step: its locals

vars == <<config, profile, pc, req, stack, ret, upstream, walk, ner, events,
          stages, nerLog, calls, sink, fn, res, chunker>>

\* the state of the tool pipeline
toolVars == <<config, profile, pc, req, stack, ret, upstream, walk, ner, events,
              stages, nerLog, calls, sink>>

NoRet == [kind |-> "none", value |-> NoResponse]

NoWalk ==
  [started |-> FALSE, finished |-> FALSE, i |-> 0,
   accumulated |-> [redactionCount |-> 0, redactedTypes |-> <<>>],
   redactedContent |-> <<>>, pending |-> NoResult]

NoLabels == [defined |-> FALSE, Labels |-> <<>>]

NoFn == [op |-> "none", in |-> <<>>, applied |-> FALSE, out |-> <<>>]

\* no resource has been read: the request without an annotation, no
\* contents, no item settled
NoRead ==
  [pc |-> "idle", req |-> [uri |-> "", _piiRedaction |-> NoSummary],
   upstream |-> <<>>, values |-> <<>>, settled |-> <<>>,
   ret |-> [kind |-> "none", contents |-> <<>>, error |-> <<>>]]

\* chunkText is not running
NoChunker ==
  [pc |-> "idle", text |-> <<>>, limit |-> 0, lines |-> <<>>, chunks |-> <<>>,
   current |-> <<>>, remaining |-> <<>>]

NoNer ==
  [stage1 |-> NoResult, text |-> <<>>, preFilter |-> NoLabels,
   chunks |-> <<>>, k |-> 0,
   redactedChunks |-> <<>>, totalCount |-> 0, allTypes |-> <<>>]

InitPipeline ==
  /\ config \in ConfigInputs
  /\ profile \in ProfileInputs
  /\ pc = [r \in Reqs |-> "idle"]
  /\ req = [r \in Reqs |->
             [name |-> "", arguments |-> [defined |-> FALSE, body |-> <<>>],
              _piiRedaction |-> NoSummary]]
  /\ stack = [r \in Reqs |-> <<>>]
  /\ ret = [r \in Reqs |-> NoRet]
  /\ upstream = [r \in Reqs |-> NoResponse]
  /\ walk = [r \in Reqs |-> NoWalk]
  /\ ner = [r \in Reqs |-> NoNer]
  /\ events = [r \in Reqs |-> <<>>]
  /\ stages = [r \in Reqs |-> <<>>]
  /\ nerLog = [r \in Reqs |-> <<>>]
  /\ calls = [r \in Reqs |-> <<>>]
  /\ sink = <<>>
  /\ res = NoRead
  /\ chunker = NoChunker

Init == InitPipeline /\ fn = NoFn

Top(r) == stack[r][Len(stack[r])]

\* the layer on top of the stack has finished: control goes to the layer
\* around it, or the invocation is over
Pop(r) ==
  /\ stack' = [stack EXCEPT ![r] = SubSeq(stack[r], 1, Len(stack[r]) - 1)]
  /\ pc' = [pc EXCEPT ![r] = IF Len(stack[r]) = 1 THEN "done" ELSE "resume"]

\* ------------------------------------------------------------- the actions
\* A client calls a tool: the layers are entered outermost first and the
\* innermost one hands the request to the backend.
Invoke(r, arguments) ==
  /\ pc[r] = "idle"
  /\ req' = [req EXCEPT ![r] =
               [name |-> "elastic_search", arguments |-> arguments,
                _piiRedaction |-> NoSummary]]
  /\ stack' = [stack EXCEPT ![r] = Onion(toolMiddleware)]
  /\ events' = [events EXCEPT ![r] =
                  EnterEvents(Onion(toolMiddleware)) \o <<"backend">>]
  /\ pc' = [pc EXCEPT ![r] = "backend"]
  /\ UNCHANGED <<fn, res, chunker, config, profile, ret, upstream, walk, ner, stages, nerLog,
                 calls, sink>>

BackendReturn(r, response) ==
  /\ pc[r] = "backend"
  /\ upstream' = [upstream EXCEPT ![r] = response]
  /\ ret' = [ret EXCEPT ![r] = [kind |-> "return", value |-> response]]
  /\ pc' = [pc EXCEPT ![r] = "resume"]
  /\ UNCHANGED <<fn, res, chunker, config, profile, req, stack, walk, ner, events, stages,
                 nerLog, calls, sink>>

BackendThrow(r, err) ==
  /\ pc[r] = "backend"
  /\ ret' = [ret EXCEPT ![r] = [kind |-> "throw", value |-> err]]
  /\ pc' = [pc EXCEPT ![r] = "resume"]
  /\ UNCHANGED <<fn, res, chunker, config, profile, req, stack, upstream, walk, ner, events,
                 stages, nerLog, calls, sink>>

\* The loop of the PII middleware from block i on, run until it suspends in
\* the await of the next text block or leaves the loop, attaches the summary
\* and returns.
Walk(r, result, i, accumulated, out) ==
  LET s == skipNonText(result.content, i, out)
  IN IF s.i > Len(result.content)
     THEN /\ req' = attach(req, r, accumulated)
          /\ ret' = [ret EXCEPT ![r] =
                       [kind |-> "return",
                        value |-> [result EXCEPT !.content = s.out]]]
          /\ walk' = [walk EXCEPT ![r] =
                        [started |-> TRUE, finished |-> TRUE, i |-> s.i,
                         accumulated |-> accumulated,
                         redactedContent |-> s.out, pending |-> NoResult]]
          /\ events' = [events EXCEPT ![r] = Append(@, ExitEvent("pii"))]
          /\ Pop(r)
          /\ UNCHANGED <<ner, stages, nerLog>>
     ELSE LET text == result.content[s.i].text
              plan == redactTextPlan(profile, config)
              stage1 == redactPII(text)
              deep == plan = "deep" /\ config.comprehendEnabled
          IN /\ stages' = [stages EXCEPT ![r] =
                             Append(@, [stage1 |-> plan # "none",
                                        stage2 |-> deep])]
             /\ walk' = [walk EXCEPT ![r] =
                           [started |-> TRUE, finished |-> FALSE, i |-> s.i,
                            accumulated |-> accumulated,
                            redactedContent |-> s.out,
                            pending |->
                              IF plan = "none"
                              THEN [redactedData |-> text, redactionCount |-> 0,
                                    redactedTypes |-> <<>>]
                              ELSE IF deep THEN NoResult ELSE stage1]]
             /\ IF deep
                THEN /\ ner' = [ner EXCEPT ![r] =
                                  [stage1 |-> stage1,
                                   text |-> stage2Input(text, stage1),
                                   preFilter |-> NoLabels,
                                   chunks |-> <<>>, k |-> 0,
                                   redactedChunks |-> <<>>, totalCount |-> 0,
                                   allTypes |-> <<>>]]
                     /\ nerLog' = [nerLog EXCEPT ![r] =
                                     Append(@, [op |-> "contains_pii",
                                                text |-> preFilterText(
                                                  stage2Input(text, stage1))])]
                     /\ pc' = [pc EXCEPT ![r] = "contains"]
                ELSE /\ pc' = [pc EXCEPT ![r] = "redact"]
                     /\ UNCHANGED <<ner, nerLog>>
             /\ UNCHANGED <<req, ret, stack, events>>

\* The PII middleware resumes after its await next(req).
PiiResume(r) ==
  /\ pc[r] = "resume"
  /\ Top(r) = "pii"
  /\ IF ret[r].kind = "throw" \/ piiPassesThrough(ret[r].value)
     THEN /\ events' = [events EXCEPT ![r] = Append(@, ExitEvent("pii"))]
          /\ Pop(r)
          /\ UNCHANGED <<req, ret, walk, ner, stages, nerLog>>
     ELSE Walk(r, ret[r].value, 1,
               [redactionCount |-> 0, redactedTypes |-> <<>>], <<>>)
  /\ UNCHANGED <<fn, res, chunker, config, profile, upstream, calls, sink>>

\* await redactText(...) of the current text block resumes: merge, push, go on
PiiBlockDone(r) ==
  /\ pc[r] = "redact"
  /\ LET result == ret[r].value
         w == walk[r]
         block == result.content[w.i]
     IN Walk(r, result, w.i + 1, mergeResults(w.accumulated, w.pending),
             Append(w.redactedContent,
                    redactedBlock(block, w.pending.redactedData)))
  /\ UNCHANGED <<fn, res, chunker, config, profile, upstream, calls, sink>>

\* (mutant) the pre-filter's answer is never taken as "no PII"
noPiiNever(preFilter) == FALSE

\* !preFilter.Labels || preFilter.Labels.length === 0
noPii(preFilter) == ~preFilter.defined \/ Len(preFilter.Labels) = 0

\* redactPIIDeep's result once stage 2 is over for the text
deepResult(n, redacted, count, types) ==
  [redactedData |-> redacted,
   redactionCount |-> n.stage1.redactionCount + count,
   redactedTypes |-> OrderedUnion(n.stage1.redactedTypes, types)]

\* redactStringWithComprehend from the chunk loop's k-th iteration on
NerLoop(r, n) ==
  IF n.k > Len(n.chunks)
  THEN /\ walk' = [walk EXCEPT ![r].pending =
                     deepResult(n, joinLines(n.redactedChunks), n.totalCount,
                                n.allTypes)]
       /\ ner' = [ner EXCEPT ![r] = n]
       /\ pc' = [pc EXCEPT ![r] = "redact"]
       /\ UNCHANGED nerLog
  ELSE /\ ner' = [ner EXCEPT ![r] = n]
       /\ nerLog' = [nerLog EXCEPT ![r] =
                       Append(@, [op |-> "detect_pii", text |-> n.chunks[n.k]])]
       /\ pc' = [pc EXCEPT ![r] = "detect"]
       /\ UNCHANGED walk

\* ContainsPiiEntities answers
NerContains(r, response) ==
  /\ pc[r] = "contains"
  /\ IF noPii(response)
     THEN /\ walk' = [walk EXCEPT ![r].pending =
                        deepResult(ner[r], ner[r].text, 0, <<>>)]
          /\ ner' = [ner EXCEPT ![r].preFilter = response]
          /\ pc' = [pc EXCEPT ![r] = "redact"]
          /\ UNCHANGED nerLog
     ELSE NerLoop(r, [ner[r] EXCEPT !.preFilter = response,
                                    !.chunks = chunkText(ner[r].text),
                                    !.k = 1])
  /\ UNCHANGED <<fn, res, chunker, config, profile, req, stack, ret, upstream, events, stages,
                 calls, sink>>

\* DetectPiiEntities answers for the current chunk
NerDetect(r, entities) ==
  /\ pc[r] = "detect"
  /\ LET n == ner[r]
         a == applyRedactions(n.chunks[n.k], entities)
     IN NerLoop(r, [n EXCEPT !.redactedChunks = Append(@, a.redacted),
                             !.totalCount = @ + a.count,
                             !.allTypes = OrderedUnion(@, a.types),
                             !.k = @ + 1])
  /\ UNCHANGED <<fn, res, chunker, config, profile, req, stack, ret, upstream, events, stages,
                 calls, sink>>

\* the NER client fails: nothing catches it inside the PII middleware
NerThrow(r, err) ==
  /\ pc[r] \in {"contains", "detect"}
  /\ ret' = [ret EXCEPT ![r] = [kind |-> "throw", value |-> err]]
  /\ events' = [events EXCEPT ![r] = Append(@, ExitEvent("pii"))]
  /\ Pop(r)
  /\ UNCHANGED <<fn, res, chunker, config, profile, req, upstream, walk, ner, stages, nerLog,
                 calls, sink>>

\* The audit middleware resumes after its await next(req): it logs, then
\* returns the result or throws the error again.
AuditResume(r) ==
  /\ pc[r] = "resume"
  /\ Top(r) = "audit"
  /\ LET entries == auditLogCalls(req[r], ret[r], profile.name)
     IN /\ calls' = [calls EXCEPT ![r] = @ \o entries]
        /\ sink' = logAll(config.auditEnabled, sink, entries)
        /\ events' = [events EXCEPT ![r] =
                        @ \o [j \in 1..Len(entries) |-> "audit-log"]
                          \o <<ExitEvent("audit")>>]
  /\ ret' = [ret EXCEPT ![r] = auditOutcome(ret[r])]
  /\ Pop(r)
  /\ UNCHANGED <<fn, res, chunker, config, profile, req, upstream, walk, ner, stages, nerLog>>

\* the chunk whose detection is awaited
CurrentChunk(r) ==
  IF pc[r] = "detect" THEN ner[r].chunks[ner[r].k] ELSE <<>>

\* one request at a time, any response
Next ==
  \E r \in {1} :
    \/ \E a \in ArgumentInputs : Invoke(r, a)
    \/ \E response \in ResponseInputs : BackendReturn(r, response)
    \/ \E err \in BackendErrorInputs : BackendThrow(r, err)
    \/ PiiResume(r)
    \/ PiiBlockDone(r)
    \/ \E l \in LabelInputs : NerContains(r, l)
    \/ \E es \in EntityLists(CurrentChunk(r)) : NerDetect(r, es)
    \/ \E err \in NerErrorInputs : NerThrow(r, err)
    \/ AuditResume(r)

Spec == Init /\ [][Next]_vars

\* several requests in flight, their awaits interleaved in any order
NextConc ==
  \E r \in Reqs :
    \/ \E a \in ConcArgumentInputs : Invoke(r, a)
    \/ \E response \in ConcResponseInputs : BackendReturn(r, response)
    \/ \E err \in BackendErrorInputs : BackendThrow(r, err)
    \/ PiiResume(r)
    \/ PiiBlockDone(r)
    \/ \E l \in LabelInputs : NerContains(r, l)
    \/ \E es \in EntityLists(CurrentChunk(r)) : NerDetect(r, es)
    \/ \E err \in NerErrorInputs : NerThrow(r, err)
    \/ AuditResume(r)

InitConc == Init /\ profile.name = "GDPR"

SpecConc == InitConc /\ [][NextConc]_vars

\* --------------------------------------------- PII resource middleware
\* the items of a ReadResourceResult
TextItem(text) == [hasText |-> TRUE, text |-> text, blob |-> ""]

BlobItem(blob) == [hasText |-> FALSE, text |-> <<>>, blob |-> blob]

ResourceInputs ==
  SeqsUpTo({TextItem(<<EMAIL, PLAIN>>), TextItem(<<PERSON, SSN>>),
            BlobItem("base64data")}, MaxItems)

\* what the chunk loop of redactStringWithComprehend can end with from the
\* k-th chunk on, over everything the provider may answer
RECURSIVE chunkOutcomes(_, _)
chunkOutcomes(chunks, k) ==
  IF k > Len(chunks)
  THEN {[redactedChunks |-> <<>>, totalCount |-> 0, allTypes |-> <<>>]}
  ELSE { [redactedChunks |-> <<a.redacted>> \o rest.redactedChunks,
          totalCount |-> a.count + rest.totalCount,
          allTypes |-> OrderedUnion(a.types, rest.allTypes)] :
           a \in {applyRedactions(chunks[k], es) : es \in EntityLists(chunks[k])},
           rest \in chunkOutcomes(chunks, k + 1) }

\* what the promise of redactText(text, profile, config) can settle with:
\* a RedactionResult, or the error of the NER client
redactTextOutcomes(text, prof, conf) ==
  LET plan == redactTextPlan(prof, conf)
      stage1 == redactPII(text)
      data == stage2Input(text, stage1)
      Fulfilled(r) == [kind |-> "return", value |-> r, error |-> Thrown(FALSE, <<>>)]
  IN CASE plan = "none" ->
            {Fulfilled([redactedData |-> text, redactionCount |-> 0,
                        redactedTypes |-> <<>>])}
       [] plan = "regex" -> {Fulfilled(stage1)}
       [] plan = "deep" ->
            {Fulfilled(deepResult([stage1 |-> stage1], data, 0, <<>>))}
              \cup {Fulfilled(deepResult([stage1 |-> stage1],
                                         joinLines(c.redactedChunks),
                                         c.totalCount, c.allTypes)) :
                      c \in chunkOutcomes(chunkText(data), 1)}
              \cup {[kind |-> "throw", value |-> NoResult, error |-> err] :
                      err \in NerErrorInputs}

\* what the callback of result.contents.map settles with for one item
itemOutcomes(item, prof, conf) ==
  IF ~item.hasText
  THEN {[kind |-> "return", item |-> item, error |-> Thrown(FALSE, <<>>)]}
  ELSE {[kind |-> o.kind, item |-> [item EXCEPT !.text = o.value.redactedData],
         error |-> o.error] : o \in redactTextOutcomes(item.text, prof, conf)}

\* (mutant) the values are taken in the order the promises settled in
promiseAllAsSettled(values, settled) ==
  [k \in 1..Len(settled) |-> values[settled[k]]]

\* await Promise.all(promises): the values in the order of the promises
promiseAll(values, settled) == values

\* a client reads a resource: the middleware calls next(req)
ReadResource(uri) ==
  /\ res.pc = "idle"
  /\ res' = [res EXCEPT !.pc = "backend", !.req.uri = uri]
  /\ UNCHANGED <<toolVars, fn, chunker>>

\* next(req) returns: every item's callback is started
ResourceReturn(contents) ==
  /\ res.pc = "backend"
  /\ res' = IF contents = <<>>
            THEN [res EXCEPT !.pc = "done",
                             !.ret = [kind |-> "return",
                                      contents |-> promiseAll(<<>>, <<>>),
                                      error |-> <<>>]]
            ELSE [res EXCEPT !.pc = "redacting", !.upstream = contents,
                             !.values = contents]
  /\ UNCHANGED <<toolVars, fn, chunker>>

\* next(req) throws: nothing catches it
ResourceThrow(err) ==
  /\ res.pc = "backend"
  /\ res' = [res EXCEPT !.pc = "done",
                        !.ret = [kind |-> "throw", contents |-> <<>>,
                                 error |-> err]]
  /\ UNCHANGED <<toolVars, fn, chunker>>

\* the promise of the i-th item settles; Promise.all rejects with the first
\* rejection and is fulfilled with the last value, and the middleware
\* returns { ...result, contents: redactedContents }
ItemSettle(i, o) ==
  /\ res.pc = "redacting"
  /\ i \notin Range(res.settled)
  /\ LET values == [res.values EXCEPT ![i] = o.item]
         settled == Append(res.settled, i)
     IN res' =
          IF o.kind = "throw"
          THEN [res EXCEPT !.pc = "done", !.settled = settled,
                           !.ret = [kind |-> "throw", contents |-> <<>>,
                                    error |-> o.error]]
          ELSE IF Len(settled) = Len(res.upstream)
               THEN [res EXCEPT !.pc = "done", !.values = values,
                                !.settled = settled,
                                !.ret = [kind |-> "return",
                                         contents |-> promiseAll(values, settled),
                                         error |-> <<>>]]
               ELSE [res EXCEPT !.values = values, !.settled = settled]
  /\ UNCHANGED <<toolVars, fn, chunker>>

NextResource ==
  \/ ReadResource("file://test.txt")
  \/ \E contents \in ResourceInputs : ResourceReturn(contents)
  \/ \E err \in BackendErrorInputs : ResourceThrow(err)
  \/ \E i \in 1..Len(res.upstream) :
       \E o \in itemOutcomes(res.upstream[i], profile, config) : ItemSettle(i, o)

SpecResource == Init /\ [][NextResource]_vars

\* ------------------------------------------ the library functions alone
pipelineVars == <<toolVars, res, chunker>>

\* no request is ever made: only a function of the library is applied
InitLibrary ==
  /\ InitPipeline
  /\ config = [auditEnabled |-> TRUE, comprehendEnabled |-> TRUE]
  /\ profile.name = "GDPR"

Pending(op, in) == [op |-> op, in |-> in, applied |-> FALSE, out |-> <<>>]

\* the function named op is applied to the input drawn at the start
Apply(op, out) ==
  /\ fn.op = op
  /\ ~fn.applied
  /\ fn' = [fn EXCEPT !.applied = TRUE, !.out = out]
  /\ UNCHANGED pipelineVars

Applied(op) == fn.op = op /\ fn.applied

\* texts of one-byte and two-byte characters and line breaks, and byte
\* limits none of which is below the size of one character (as 4500 is not)
ChunkInputs ==
  [text : SeqsUpTo({"a", "e-acute", NEWLINE}, MaxTextLen), limit : 2..MaxLimit]

ApplyChunkText == Apply("chunkText", chunkTextL(fn.in.text, fn.in.limit))

ApplyPreFilter == Apply("preFilter", preFilterTextL(fn.in.text, fn.in.limit))

InitChunk ==
  /\ InitLibrary
  /\ fn \in {Pending(op, in) : op \in {"chunkText", "preFilter"}, in \in ChunkInputs}

NextChunk == ApplyChunkText \/ ApplyPreFilter

SpecChunk == InitChunk /\ [][NextChunk]_vars

\* chunkText(text) is called: the early return, or the locals are set up
ChunkStart(text, limit) ==
  /\ fn.op = "chunkTextSteps"
  /\ chunker.pc = "idle"
  /\ chunker' =
       IF ByteLen(text) <= limit
       THEN [chunker EXCEPT !.pc = "done", !.text = text, !.limit = limit,
                            !.chunks = <<text>>]
       ELSE [chunker EXCEPT !.pc = "line", !.text = text, !.limit = limit,
                            !.lines = splitLines(text, <<>>)]
  /\ UNCHANGED <<toolVars, fn, res>>

\* one iteration of the for loop over the lines, up to the while loop; after
\* the last line what is left in current is pushed and the chunks returned
ChunkLine ==
  /\ chunker.pc = "line"
  /\ chunker' =
       IF chunker.lines = <<>>
       THEN [chunker EXCEPT !.pc = "done",
                            !.chunks = IF chunker.current # <<>>
                                       THEN Append(@, chunker.current) ELSE @]
       ELSE LET line == Head(chunker.lines)
                current == chunker.current
                candidate == IF current # <<>>
                             THEN current \o <<NEWLINE>> \o line ELSE line
            IN IF ByteLen(candidate) > chunker.limit
               THEN IF current # <<>>
                    THEN [chunker EXCEPT !.lines = Tail(@),
                                         !.chunks = Append(@, current),
                                         !.current = line]
                    ELSE [chunker EXCEPT !.lines = Tail(@), !.pc = "split",
                                         !.remaining = line]
               ELSE [chunker EXCEPT !.lines = Tail(@), !.current = candidate]
  /\ UNCHANGED <<toolVars, fn, res>>

\* the test of the while loop and one iteration of it
ChunkSplit ==
  /\ chunker.pc = "split"
  /\ chunker' =
       IF ByteLen(chunker.remaining) > chunker.limit
       THEN LET remaining == chunker.remaining
                lo == splitPoint(remaining, 0, Len(remaining), chunker.limit)
            IN [chunker EXCEPT !.chunks = Append(@, Slice(remaining, 0, lo)),
                               !.remaining = SliceFrom(remaining, lo)]
       ELSE [chunker EXCEPT !.pc = "line", !.current = chunker.remaining,
                            !.remaining = <<>>]
  /\ UNCHANGED <<toolVars, fn, res>>

\* the text and the limit of the call are drawn at the start
InitChunker ==
  /\ InitLibrary
  /\ fn \in {Pending("chunkTextSteps", in) : in \in ChunkInputs}

NextChunker ==
  \/ ChunkStart(fn.in.text, fn.in.limit)
  \/ ChunkLine
  \/ ChunkSplit

\* a call that is running goes on running
SpecChunker == InitChunker /\ [][NextChunker]_vars /\ WF_vars(NextChunker)

\* the chunks the spans are reported for
SpanTextInputs ==
  {SubSeq(<<"a", "b", "c", "d", "e", "f", "g", "h">>, 1, n) :
     n \in 1..Min(MaxChunkLen, 8)}

\* every non-empty span of a chunk, with a type stage 2 handles
SpansOf(text) ==
  { s \in [Type : {"NAME", "ADDRESS"}, BeginOffset : 0..(Len(text) - 1),
            EndOffset : 1..Len(text)] : s.BeginOffset < s.EndOffset }

Overlap(e1, e2) ==
  e1.BeginOffset < e2.EndOffset /\ e2.BeginOffset < e1.EndOffset

\* what DetectPiiEntities may answer: spans that do not overlap, in any
\* order
RECURSIVE SpanLists(_, _)
SpanLists(text, n) ==
  IF n = 0 THEN {<<>>}
  ELSE LET shorter == SpanLists(text, n - 1)
       IN shorter \cup
          UNION { { Append(l, e) :
                      e \in {x \in SpansOf(text) :
                               \A i \in 1..Len(l) : ~Overlap(l[i], x)} } :
                  l \in shorter }

SpanInputs ==
  UNION { {[text |-> t, entities |-> l] : l \in SpanLists(t, MaxSpans)} :
          t \in SpanTextInputs }

CallApplyRedactions ==
  Apply("applyRedactions", applyRedactions(fn.in.text, fn.in.entities))

InitSpans ==
  /\ InitLibrary
  /\ fn \in {Pending("applyRedactions", in) : in \in SpanInputs}

NextSpans == CallApplyRedactions

SpecSpans == InitSpans /\ [][NextSpans]_vars

\* what the claim of C29 lets DetectPiiEntities answer: spans with valid
\* offsets that may overlap, nest or share a begin offset, in any order
RECURSIVE AnySpanLists(_, _)
AnySpanLists(text, n) ==
  IF n = 0 THEN {<<>>}
  ELSE LET shorter == AnySpanLists(text, n - 1)
       IN shorter \cup
          UNION { {Append(l, e) : e \in {x \in SpansOf(text) : x.Type = "NAME"}} :
                  l \in shorter }

OverlapInputs ==
  UNION { {[text |-> t, entities |-> l] : l \in AnySpanLists(t, MaxSpans)} :
          t \in SpanTextInputs }

CallApplyRedactionsChars ==
  Apply("applyRedactionsChars", applyRedactionsChars(fn.in.text, fn.in.entities))

InitOverlap ==
  /\ InitLibrary
  /\ fn \in {Pending("applyRedactionsChars", in) : in \in OverlapInputs}

NextOverlap == CallApplyRedactionsChars

SpecOverlap == InitOverlap /\ [][NextOverlap]_vars

\* the values of the stage 1 table, character by character
CardChars ==
  <<"4", "1", "1", "1", " ", "1", "1", "1", "1", " ", "1", "1", "1",
  "1", " ", "1", "1", "1", "1">>

CardBadChars ==
  <<"1", "2", "3", "4", " ", "5", "6", "7", "8", " ", "9", "0", "1",
  "2", " ", "3", "4", "5", "6">>

CardDashChars ==
  <<"4", "1", "1", "1", "-", "1", "1", "1", "1", "-", "1", "1", "1",
  "1", "-", "1", "1", "1", "1">>

IbanChars ==
  <<"D", "E", "8", "9", "3", "7", "0", "4", "0", "0", "4", "4", "0",
  "5", "3", "2", "0", "1", "3", "0", "0", "0">>

IbanShortChars ==
  <<"G", "B", "2", "9", "N", "W", "B", "K">>

SsnChars ==
  <<"1", "2", "3", "-", "4", "5", "-", "6", "7", "8", "9">>

EmailChars ==
  <<"j", "o", "h", "n", ".", "d", "o", "e", "@", "b", "a", "n", "k",
  ".", "c", "o", "m">>

PhoneChars ==
  <<"+", "3", "1", " ", "6", " ", "1", "2", "3", "4", " ", "5", "6",
  "7", "8">>

\* what a text is put together from: the values, and what may stand next
\* to a value
FragmentInputs ==
  {CardChars, CardBadChars, CardDashChars, IbanChars, IbanShortChars, SsnChars,
   EmailChars, PhoneChars, <<"+">>, <<" ">>, <<"x">>}

RECURSIVE Flatten(_)
Flatten(fragments) ==
  IF fragments = <<>> THEN <<>> ELSE Head(fragments) \o Flatten(Tail(fragments))

Stage1Inputs == {Flatten(q) : q \in SeqsUpTo(FragmentInputs, MaxFragments)}

ApplyRedactString == Apply("redactString", redactChars(fn.in))

InitStage1 ==
  /\ InitLibrary
  /\ fn \in {Pending("redactString", in) : in \in Stage1Inputs}

NextStage1 == ApplyRedactString

SpecStage1 == InitStage1 /\ [][NextStage1]_vars

\* stage 1 applied to a text and then once more to what it returned; the
\* texts are those of stage 1 alone and a phone number followed by a card
redactAgain(value) ==
  LET first == redactChars(value)
  IN [first |-> first, second |-> redactChars(first.result)]

ApplyRedactAgain == Apply("redactAgain", redactAgain(fn.in))

InitAgain ==
  /\ InitLibrary
  /\ fn \in {Pending("redactAgain", in) :
               in \in Stage1Inputs \cup {PhoneChars \o <<" ">> \o CardChars}}

NextAgain == ApplyRedactAgain

SpecAgain == InitAgain /\ [][NextAgain]_vars

\* the logger alone: serialized arguments of one-unit characters of one and
\* of two bytes, and the length they are cut at
LogInputs ==
  [text : SeqsUpTo({"a", "e-acute"}, MaxTextLen), limit : 2..MaxLimit]

\* makeEntry({ input_parameters })
makeEntry(input_parameters) ==
  [upstream_tool |-> "elastic_search",
   compliance_profile |-> "GDPR",
   input_parameters |-> input_parameters,
   output_size_bytes |-> 100,
   redaction_count |-> 0,
   redacted_types |-> <<>>,
   status |-> "success",
   hasErrorMessage |-> FALSE,
   error_message |-> <<>>]

\* logger.log(entry) on a logger of either configuration
LoggerLog ==
  /\ fn.op = "log"
  /\ ~fn.applied
  /\ sink' = AuditLoggerLogL(config.auditEnabled, sink, makeEntry(fn.in.text),
                             fn.in.limit)
  /\ fn' = [fn EXCEPT !.applied = TRUE]
  /\ UNCHANGED <<res, chunker, config, profile, pc, req, stack, ret, upstream,
                 walk, ner, events, stages, nerLog, calls>>

InitLogger ==
  /\ InitPipeline
  /\ profile.name = "GDPR"
  /\ ~config.comprehendEnabled
  /\ fn \in {Pending("log", in) : in \in LogInputs}

NextLogger == LoggerLog

SpecLogger == InitLogger /\ [][NextLogger]_vars

\* start-up: the value of COMPLIANCE_PROFILE in the environment, if any
EnvInputs ==
  {[defined |-> FALSE, value |-> ""]}
    \cup {[defined |-> TRUE, value |-> n] :
            n \in PROFILE_NAMES \cup {"", "gdpr", "Gdpr", "FULL", "Full", "dora",
                                      "pci_dss", "PCI-DSS", "PCI", "NONE", "WAT",
                                      "UNKNOWN_PROFILE"}}

\* main: the configuration is loaded and the profile selected
Main == Apply("main", getProfile(complianceProfile(fn.in)))

InitMain ==
  /\ InitPipeline
  /\ profile.name = "GDPR"
  /\ fn \in {Pending("main", env) : env \in EnvInputs}

NextMain == Main

SpecMain == InitMain /\ [][NextMain]_vars

\* the values redactRecursive is applied to: leaves, and arrays and objects
\* of leaves and of one array and one object
LeafInputs ==
  {StringValue(<<EMAIL>>), StringValue(<<PLAIN, SSN>>), OtherValue("42"),
   OtherValue("true"), OtherValue("null")}

MemberInputs ==
  LeafInputs \cup {ArrayValue(<<StringValue(<<EMAIL>>), OtherValue("42")>>),
                   ObjectValue(<<"ssn">>, <<StringValue(<<SSN>>)>>)}

\* the own keys of an object as JSON.parse leaves them: no key twice
KeyInputs ==
  {k \in SeqsUpTo({"contact", EMAIL, "__proto__"}, MaxItems) :
     \A i, j \in 1..Len(k) : k[i] = k[j] => i = j}

ValueInputs ==
  MemberInputs
    \cup {ArrayValue(q) : q \in SeqsUpTo(MemberInputs, MaxItems)}
    \cup UNION { {ObjectValue(k, q) : q \in [1..Len(k) -> MemberInputs]} :
                 k \in KeyInputs }

ApplyRedactRecursive == Apply("redactRecursive", redactRecursive(fn.in))

InitValues ==
  /\ InitLibrary
  /\ fn \in {Pending("redactRecursive", in) : in \in ValueInputs}

NextValues == ApplyRedactRecursive

SpecValues == InitValues /\ [][NextValues]_vars

\* ------------------------------------------------------------ properties
IsPrefix(a, b) == Len(a) <= Len(b) /\ a = SubSeq(b, 1, Len(a))

Done(r) == pc[r] = "done"

PiiExited(r) == ExitEvent("pii") \in Range(events[r])

Logged(r) == calls[r] # <<>>

\* the response is one the PII middleware is to hand on untouched
ErrorResponse(result) == result.shape = "content" /\ result.hasIsError /\ result.isError

FullOrder ==
  <<"audit-enter", "pii-enter", "backend", "pii-exit", "audit-log", "audit-exit">>

\* C1: the events of every invocation occur in the order audit-enter,
\* pii-enter, backend call, pii-exit, audit entry, audit-exit, and the audit
\* entry is emitted only once the PII middleware has left its loop over the
\* content blocks (with every block processed, unless the NER client failed).
C1_EventOrder ==
  \A r \in Reqs :
    /\ IsPrefix(events[r], FullOrder)
    /\ Done(r) => events[r] = FullOrder
    /\ Logged(r) =>
         /\ PiiExited(r)
         /\ walk[r].started =>
              \/ ret[r].kind = "throw"
              \/ /\ walk[r].finished
                 /\ Len(walk[r].redactedContent) = Len(upstream[r].content)

C1_Witness ==
  \E r \in Reqs :
    /\ Done(r) /\ events[r] = FullOrder
    /\ walk[r].finished /\ walk[r].accumulated.redactionCount > 0
    /\ Len(upstream[r].content) = MaxBlocks
    /\ Len(sink) = 1

EntryHasRawPII(e) ==
  \/ ContainsRawPII(e.input_parameters)
  \/ ContainsRawPII(e.error_message)
  \/ ContainsRawPII(e.redacted_types)
  \/ e.upstream_tool \in RawPII
  \/ e.compliance_profile \in RawPII

\* C2: no field of an audit record written to the sink contains a raw
\* (unmasked) PII value, whether the invocation ended in a response or in a
\* raised error.
C2_NoRawPIIInAudit ==
  \A k \in 1..Len(sink) : ~EntryHasRawPII(sink[k].json)

\* C3: with audit enabled, the sink holds exactly one line per completed
\* invocation: each invocation logs exactly once, when it completes, on the
\* success path and on the exception path alike.
C3_OneLinePerInvocation ==
  config.auditEnabled =>
    /\ Len(sink) = Cardinality({r \in Reqs : Done(r)})
    /\ \A r \in Reqs : Len(calls[r]) = IF Done(r) THEN 1 ELSE 0

C3_Witness ==
  /\ config.auditEnabled
  /\ \A r \in Reqs : Done(r)
  /\ Len(sink) = NumReqs
  /\ \E r \in Reqs : ret[r].kind = "throw"
  /\ \E r \in Reqs : ret[r].kind = "return"

AuditStep(r) == pc[r] = "resume" /\ Top(r) = "audit" /\ pc'[r] # "resume"

\* C4: when the inner pipeline raises, the audit middleware logs one entry
\* with status error, the message of the raised error, output size 0,
\* redaction count 0 and no types, and raises the same error again.
C4_ErrorPath ==
  [][\A r \in Reqs :
       (AuditStep(r) /\ ret[r].kind = "throw") =>
         /\ Len(calls'[r]) = Len(calls[r]) + 1
         /\ LET e == calls'[r][Len(calls'[r])]
                err == ret[r].value
            IN /\ e.status = "error"
               /\ e.hasErrorMessage
               /\ e.error_message =
                    IF err.instanceofError THEN err.message ELSE err.string
               /\ e.output_size_bytes = 0
               /\ e.redaction_count = 0
               /\ e.redacted_types = <<>>
         /\ ret'[r] = ret[r]]_vars

C4_Witness ==
  \E r \in Reqs :
    /\ Done(r) /\ ret[r].kind = "throw" /\ walk[r].started
    /\ walk[r].accumulated.redactionCount > 0
    /\ Len(calls[r]) = 1 /\ calls[r][1].status = "error"
    /\ calls[r][1].redaction_count = 0

\* C5: when the inner pipeline returns a response, the audit middleware
\* returns that response unchanged; its entry has status error exactly when
\* the response's isError is true, and carries the count and types of the
\* request annotation, or 0 and no types when the annotation is absent.
C5_SuccessPath ==
  [][\A r \in Reqs :
       (AuditStep(r) /\ ret[r].kind = "return") =>
         /\ Len(calls'[r]) = Len(calls[r]) + 1
         /\ ret'[r] = ret[r]
         /\ LET e == calls'[r][Len(calls'[r])]
                a == req[r]._piiRedaction
            IN /\ (e.status = "error") = ErrorResponse(ret[r].value)
               /\ e.status \in {"error", "success"}
               /\ ~e.hasErrorMessage
               /\ a.present => /\ e.redaction_count = a.redactionCount
                               /\ e.redacted_types = a.redactedTypes
               /\ ~a.present => /\ e.redaction_count = 0
                                /\ e.redacted_types = <<>>]_vars

C5_Witness ==
  \E r \in Reqs :
    /\ Done(r) /\ ret[r].kind = "return"
    /\ req[r]._piiRedaction.present
    /\ Len(calls[r]) = 1
    /\ calls[r][1].redaction_count = 2
    /\ calls[r][1].status = "success"

\* what stage 1 alone finds in the text blocks of a content sequence
RECURSIVE Stage1Summary(_)
Stage1Summary(content) ==
  IF content = <<>> THEN [redactionCount |-> 0, redactedTypes |-> <<>>]
  ELSE LET rest == Stage1Summary(Tail(content))
           b == Head(content)
           r == redactString(b.text)
       IN IF b.type # "text" THEN rest
          ELSE [redactionCount |-> r.count + rest.redactionCount,
                redactedTypes |-> OrderedUnion(r.types, rest.redactedTypes)]

\* C6: with several requests in flight and their awaits interleaved in any
\* order, the audit entry of a request whose response the PII middleware
\* walked carries the count and types that middleware accumulated for that
\* same request (and, where only stage 1 ran, exactly what stage 1 finds in
\* that request's own upstream response).
C6_OwnSummary ==
  \A r \in Reqs :
    (Logged(r) /\ ret[r].kind = "return" /\ walk[r].finished) =>
      LET e == calls[r][1]
      IN /\ e.redaction_count = walk[r].accumulated.redactionCount
         /\ e.redacted_types = walk[r].accumulated.redactedTypes
         /\ redactTextPlan(profile, config) = "regex" =>
              /\ e.redaction_count = Stage1Summary(upstream[r].content).redactionCount
              /\ e.redacted_types = Stage1Summary(upstream[r].content).redactedTypes

C6_Witness ==
  \E r1, r2 \in Reqs :
    /\ r1 # r2
    /\ Logged(r1) /\ walk[r1].finished
    /\ calls[r1][1].redaction_count = 2
    /\ pc[r2] = "resume" /\ walk[r2].finished
    /\ walk[r2].accumulated.redactionCount = 1

\* C7: an upstream response of the legacy shape, or one whose isError is
\* true, is returned by the PII middleware unchanged and none of its blocks
\* is handed to redaction, whatever the profile.
C7_PassThrough ==
  \A r \in Reqs :
    (PiiExited(r) /\ (upstream[r].shape = "legacy" \/ ErrorResponse(upstream[r]))) =>
      /\ ret[r] = [kind |-> "return", value |-> upstream[r]]
      /\ ~walk[r].started
      /\ stages[r] = <<>>

C7_Witness ==
  \E r \in Reqs :
    /\ PiiExited(r) /\ ErrorResponse(upstream[r])
    /\ profile.stage1
    /\ Len(upstream[r].content) > 0
    /\ upstream[r].content[1].type = "text"
    /\ ContainsRawPII(upstream[r].content[1].text)

\* C8 as stated: after the PII middleware handled a response whose isError
\* is true, the annotation slot is present with count 0 and the audit entry
\* has status error.
C8_AnnotationPresent ==
  \A r \in Reqs :
    (PiiExited(r) /\ ErrorResponse(upstream[r])) =>
      /\ req[r]._piiRedaction.present
      /\ req[r]._piiRedaction.redactionCount = 0
      /\ Logged(r) => calls[r][1].status = "error"

\* C8 amended: after the PII middleware handled a response whose isError is
\* true, the annotation slot is still absent, and the audit entry of the
\* invocation has redaction count 0, no types and status error.
C8_AnnotationAbsent ==
  \A r \in Reqs :
    (PiiExited(r) /\ ErrorResponse(upstream[r])) =>
      /\ ~req[r]._piiRedaction.present
      /\ Logged(r) => /\ calls[r][1].status = "error"
                      /\ calls[r][1].redaction_count = 0
                      /\ calls[r][1].redacted_types = <<>>

C8_Witness ==
  \E r \in Reqs :
    /\ Done(r) /\ ErrorResponse(upstream[r]) /\ Logged(r)
    /\ Stage1Summary(upstream[r].content).redactionCount > 0
    /\ redactTextPlan(profile, config) # "none"

\* C9: for a non-error response with content, the content the PII
\* middleware returns has the length and order of the upstream content,
\* every non-text block is the upstream block, and a text block differs
\* from the upstream block in its text field at most; the rest of the
\* response is as upstream.
C9_ContentFrame ==
  \A r \in Reqs :
    (walk[r].finished /\ ret[r].kind = "return") =>
      LET in == upstream[r].content
          out == ret[r].value.content
      IN /\ Len(out) = Len(in)
         /\ \A k \in 1..Len(in) :
              /\ k <= Len(out)
              /\ in[k].type # "text" => out[k] = in[k]
              /\ in[k].type = "text" => out[k] = [in[k] EXCEPT !.text = out[k].text]
         /\ ret[r].value = [upstream[r] EXCEPT !.content = out]

C9_Witness ==
  \E r \in Reqs :
    /\ walk[r].finished /\ ret[r].kind = "return"
    /\ Len(upstream[r].content) = MaxBlocks
    /\ \E k \in 1..Len(upstream[r].content) : upstream[r].content[k].type = "image"
    /\ \E k \in 1..Len(upstream[r].content) :
         /\ upstream[r].content[k].type = "text"
         /\ upstream[r].content[k].payload = "audience:user"
         /\ ret[r].value.content[k].text # upstream[r].content[k].text

\* C10: for every combination of profile.stage1, profile.stage2 and the
\* comprehendEnabled flag, a text block gets stage 1 exactly when
\* profile.stage1 is true and stage 2 exactly when profile.stage2 and the
\* flag are both true.
C10_StagesIndependent ==
  \A r \in Reqs : \A k \in 1..Len(stages[r]) :
    /\ stages[r][k].stage1 = profile.stage1
    /\ stages[r][k].stage2 = (profile.stage2 /\ config.comprehendEnabled)

\* the text blocks of a content sequence, in order
TextBlocks(content) == SelectSeq(content, LAMBDA b : b.type = "text")

\* what stage 1 makes of the b-th text block of the upstream response
Masked(r, b) == redactPII(TextBlocks(upstream[r].content)[b].text).redactedData

\* how many pre-filter calls the first j entries of a log hold
ProbeCount(log, j) == Cardinality({i \in 1..j : log[i].op = "contains_pii"})

\* the texts of the detection calls made for the b-th text, in call order
RECURSIVE SegmentFrom(_, _, _)
SegmentFrom(log, b, i) ==
  IF i > Len(log) THEN <<>>
  ELSE IF log[i].op = "detect_pii" /\ ProbeCount(log, i) = b
       THEN <<log[i].text>> \o SegmentFrom(log, b, i + 1)
       ELSE SegmentFrom(log, b, i + 1)

Segment(log, b) == SegmentFrom(log, b, 1)

\* the text block being redacted got stage 2
Stage2Current(r) ==
  /\ stages[r] # <<>>
  /\ stages[r][Len(stages[r])].stage2

\* C11: stage 2 replaces and counts an entity span only when its type is in
\* the entity types of the active profile (under GDPR: NAME, ADDRESS,
\* DATE_TIME, PASSPORT_NUMBER, DRIVER_ID), so every type stage 2 has
\* replaced in a text is one of the profile's.
C11_ProfileEntityTypes ==
  \A r \in Reqs :
    Range(ner[r].allTypes) \subseteq comprehendEntityTypes(profile)

\* the values stage 1 masks
Stage1Values == {EMAIL, SSN, CARD, IBAN, PHONE}

\* C12: every string handed to the NER client, the pre-filter probe and
\* every detection chunk, is taken from the text as stage 1 left it: the
\* probe is the head of the masked text, a chunk is a chunk of the masked
\* text, and neither holds a value that stage 1 masks.
C12_Stage1First ==
  \A r \in Reqs : \A j \in 1..Len(nerLog[r]) :
    LET e == nerLog[r][j]
        b == ProbeCount(nerLog[r], j)
    IN /\ b \in 1..Len(TextBlocks(upstream[r].content))
       /\ e.op = "contains_pii" => e.text = Slice(Masked(r, b), 0, 4500)
       /\ e.op = "detect_pii" => e.text \in Range(chunkText(Masked(r, b)))
       /\ Range(e.text) \cap Stage1Values = {}

C12_Witness ==
  \E r \in Reqs : \E j \in 1..Len(nerLog[r]) :
    /\ nerLog[r][j].op = "detect_pii"
    /\ SSN_MASK \in Range(nerLog[r][j].text)
    /\ SSN \in Range(TextBlocks(upstream[r].content)[ProbeCount(nerLog[r], j)].text)

\* C13: for every text stage 2 runs on, the pre-filter is called exactly
\* once and before any detection; when it reports no labels no detection
\* call is made and the text comes back as it went in, with nothing
\* counted; otherwise detection is called once per chunk, in chunk order.
C13_PreFilterThenChunks ==
  \A r \in Reqs :
    LET log == nerLog[r]
        n == ProbeCount(log, Len(log))
    IN /\ log # <<>> => log[1].op = "contains_pii"
       /\ n = Cardinality({k \in 1..Len(stages[r]) : stages[r][k].stage2})
       /\ \A b \in 1..n : IsPrefix(Segment(log, b), chunkText(Masked(r, b)))
       /\ (pc[r] = "redact" /\ Stage2Current(r)) =>
            IF ner[r].preFilter.defined /\ Len(ner[r].preFilter.Labels) > 0
            THEN Segment(log, n) = chunkText(Masked(r, n))
            ELSE /\ Segment(log, n) = <<>>
                 /\ walk[r].pending.redactedData = Masked(r, n)
                 /\ walk[r].pending.redactionCount = ner[r].stage1.redactionCount
                 /\ walk[r].pending.redactedTypes = ner[r].stage1.redactedTypes

C13_Witness ==
  \E r \in Reqs :
    /\ pc[r] = "redact" /\ Stage2Current(r)
    /\ ProbeCount(nerLog[r], Len(nerLog[r])) = 2
    /\ Segment(nerLog[r], 1) = <<>>
    /\ Len(Segment(nerLog[r], 2)) = 2
    /\ Segment(nerLog[r], 2)[1] = <<FILLER>>

\* the PII middleware entered its loop over the blocks and left it before
\* the end: an await of the NER client threw
NerFailed(r) ==
  walk[r].started /\ ~walk[r].finished /\ pc[r] \in {"resume", "done"}

\* C18: when the NER client fails in the pre-filter or in the detection of
\* a chunk, the PII middleware raises that failure: it produces no
\* response, leaves the request without annotation, and the audit layer
\* logs one entry with status error and raises the same failure again.
C18_NerFailurePropagates ==
  \A r \in Reqs :
    NerFailed(r) =>
      /\ ret[r].kind = "throw"
      /\ ret[r].value \in NerErrorInputs
      /\ ~req[r]._piiRedaction.present
      /\ pc[r] = "resume" => calls[r] = <<>>
      /\ Done(r) =>
           /\ Len(calls[r]) = 1
           /\ calls[r][1].status = "error"
           /\ calls[r][1].error_message = ret[r].value.message
           /\ calls[r][1].redaction_count = 0
           /\ calls[r][1].redacted_types = <<>>

C18_Witness ==
  \E r \in Reqs :
    /\ NerFailed(r) /\ Done(r)
    /\ walk[r].accumulated.redactionCount > 0
    /\ nerLog[r][Len(nerLog[r])] = [op |-> "detect_pii", text |-> <<AGE, PERSON>>]
    /\ config.auditEnabled /\ Len(sink) = 1

\* the chunks as they come back when detection reports no entity
RedactedWithoutEntities(chunks) ==
  [k \in 1..Len(chunks) |-> applyRedactions(chunks[k], <<>>).redacted]

\* C14: every chunk chunkText returns is at most the limit long in UTF-8
\* bytes, also when a line longer than the limit follows shorter lines.
C14_ChunkWithinLimit ==
  Applied("chunkText") =>
    \A k \in 1..Len(fn.out) : ByteLen(fn.out[k]) <= fn.in.limit

\* C15: the text handed to the pre-filter is at most the limit long in
\* UTF-8 bytes, also when the text holds multi-byte characters.
C15_PreFilterWithinLimit ==
  Applied("preFilter") => ByteLen(fn.out) <= fn.in.limit

\* C16: the chunks of chunkText joined with a line break give back the
\* text, so a text whose chunks come back from detection without entities
\* is returned as it was, single over-long lines and empty lines included.
C16_JoinGivesBack ==
  Applied("chunkText") =>
    /\ joinLines(fn.out) = fn.in.text
    /\ joinLines(RedactedWithoutEntities(fn.out)) = fn.in.text

\* a text read from offset pos on, each span given by its literal and every
\* character outside the spans as it is
RECURSIVE SpansReplaced(_, _, _)
SpansReplaced(text, pos, spans) ==
  IF pos >= Len(text) THEN <<>>
  ELSE IF \E e \in spans : e.BeginOffset = pos
       THEN LET e == CHOOSE x \in spans : x.BeginOffset = pos
            IN <<"[REDACTED:", e.Type, "]">> \o SpansReplaced(text, e.EndOffset, spans)
       ELSE <<text[pos + 1]>> \o SpansReplaced(text, pos + 1, spans)

\* C17: for a chunk and entity spans of handled types that do not overlap,
\* reported in any order, the redacted chunk is the chunk with each span
\* replaced by [REDACTED:<TYPE>] and every character outside the spans as it
\* was, and the count is the number of spans.
C17_SpansReplaced ==
  Applied("applyRedactions") =>
    /\ fn.out.redacted = SpansReplaced(fn.in.text, 0, Range(fn.in.entities))
    /\ fn.out.count = Len(fn.in.entities)
    /\ Range(fn.out.types) = {e.Type : e \in Range(fn.in.entities)}

C17_Witness ==
  /\ Applied("applyRedactions")
  /\ Len(fn.in.entities) = 2
  /\ fn.in.entities[1].EndOffset <= fn.in.entities[2].BeginOffset
  /\ fn.in.entities[1].BeginOffset > 0
  /\ fn.in.entities[1].EndOffset - fn.in.entities[1].BeginOffset = 2
  /\ fn.in.entities[1].Type # fn.in.entities[2].Type
  /\ Len(fn.out.redacted) = Len(fn.in.text) + 3

\* the matches of a pattern among all the matches of a run
MatchesOf(matches, name) == SelectSeq(matches, LAMBDA m : m.name = name)

Changed(matches) == SelectSeq(matches, LAMBDA m : m.masked # m.match)

\* C19: in stage 1 the count goes up by one for each match whose mask
\* differs from the matched text and by nothing for a match the mask gives
\* back unchanged (Luhn failure, IBAN too short), and a pattern's tag is
\* among the types exactly when a match of that pattern was changed.
C19_CountIsChangedMatches ==
  Applied("redactString") =>
    /\ fn.out.count = Len(Changed(fn.out.matches))
    /\ \A k \in 1..Len(PATTERNS) :
         (PATTERNS[k] \in Range(fn.out.types))
           = (Changed(MatchesOf(fn.out.matches, PATTERNS[k])) # <<>>)
    /\ Range(fn.out.types) \subseteq Range(PATTERNS)
    /\ (fn.out.count = 0) = (fn.out.result = fn.in)

C19_Witness ==
  /\ Applied("redactString")
  /\ fn.in = CardBadChars \o PhoneChars
  /\ Len(fn.out.matches) = 2
  /\ fn.out.matches[1].masked = CardBadChars
  /\ fn.out.count = 1
  /\ fn.out.types = <<"phone">>

\* s holds part as a run of consecutive characters
Holds(s, part) ==
  \E p \in 0..(Len(s) - Len(part)) : SubSeq(s, p + 1, p + Len(part)) = part

\* the sixteen-digit sequences of a text: four groups of four digits with
\* an optional space or dash between them, between word boundaries
SixteenDigitRuns(s) ==
  { SubSeq(s, p + 1, execAt(regex("credit_card"), s, p)) :
      p \in {q \in 0..(Len(s) - 1) : execAt(regex("credit_card"), s, q) > q} }

LuhnInvalid(run) ==
  ~luhnCheck([i \in 1..Len(digitsOf(run)) |-> DigitValue(digitsOf(run)[i])])

\* C20: every sixteen-digit sequence of the text that fails the Luhn check
\* is in the output of stage 1 unaltered, whatever stands around it and
\* whichever patterns run after the credit-card pattern.
C20_LuhnInvalidUntouched ==
  Applied("redactString") =>
    \A run \in SixteenDigitRuns(fn.in) :
      LuhnInvalid(run) => Holds(fn.out.result, run)

\* the two values have the same shape: the same keys in the same order, the
\* same lengths, the same leaves that are not strings
RECURSIVE SameShape(_, _)
SameShape(v, w) ==
  /\ v.kind = w.kind
  /\ v.kind = "other" => w = v
  /\ v.kind \in {"array", "object"} =>
       /\ w.keys = v.keys
       /\ Len(w.items) = Len(v.items)
       /\ \A i \in 1..Len(v.items) : SameShape(v.items[i], w.items[i])

\* C21: redact_recursive(v) has the shape of v: the same map keys in the
\* same order, the same list lengths and every leaf that is not a string
\* identical.
C21_ShapePreserved ==
  Applied("redactRecursive") => SameShape(fn.in, fn.out.result)

\* C22: what stage 1 returns holds nothing stage 1 would redact: applied
\* again to its own output it changes nothing and counts nothing.
C22_Idempotent ==
  Applied("redactAgain") =>
    /\ fn.out.second.result = fn.out.first.result
    /\ fn.out.second.count = 0

\* C23: get_profile returns the profile of the name for GDPR, DORA, PCI_DSS
\* and full (GDPR and full with both stages, DORA and PCI_DSS with stage 1
\* only); for any other name it writes a warning holding "Unknown compliance
\* profile" and returns the GDPR profile.
C23_GetProfileTotal ==
  Applied("main") =>
    LET name == complianceProfile(fn.in)
        p == fn.out.profile
    IN /\ p.name \in PROFILE_NAMES
       /\ p.stage1
       /\ p.stage2 = (p.name \in {"GDPR", "full"})
       /\ name \in {"GDPR", "DORA", "PCI_DSS", "full"} => p.name = name
       /\ name \notin {"GDPR", "DORA", "PCI_DSS", "full"} =>
            /\ p.name = "GDPR"
            /\ \E i \in 1..Len(fn.out.stderr) :
                 "Unknown compliance profile" \in Range(fn.out.stderr[i])

C23_Witness ==
  /\ Applied("main")
  /\ fn.in.defined
  /\ fn.in.value = "UNKNOWN_PROFILE"
  /\ fn.out.profile = [name |-> "GDPR", stage1 |-> TRUE, stage2 |-> TRUE]
  /\ fn.out.stderr # <<>>

\* the longest prefix of s that is at most n bytes long
BytePrefix(s, n) ==
  Slice(s, 0, Greatest({k \in 0..Len(s) : ByteLen(Slice(s, 0, k)) <= n}))

\* C24 as stated: the input_parameters of a written line are the
\* serialized arguments when these are at most 500 bytes long, and else
\* their first 500 bytes followed by "...[truncated]".
C24_TruncatedAtBytes ==
  Applied("log") =>
    \A i \in 1..Len(sink) :
      sink[i].json.input_parameters =
        IF ByteLen(fn.in.text) <= fn.in.limit THEN fn.in.text
        ELSE BytePrefix(fn.in.text, fn.in.limit) \o <<"...[truncated]">>

\* C24, amended: the input_parameters of a written line are the serialized
\* arguments when these are at most 500 characters (UTF-16 code units) long,
\* and else their first 500 characters followed by "...[truncated]".
C24_TruncatedAtChars ==
  Applied("log") =>
    \A i \in 1..Len(sink) :
      sink[i].json.input_parameters =
        IF Len(fn.in.text) <= fn.in.limit THEN fn.in.text
        ELSE SubSeq(fn.in.text, 1, fn.in.limit) \o <<"...[truncated]">>

C24_Witness ==
  /\ Applied("log")
  /\ Len(sink) = 1
  /\ Len(fn.in.text) > fn.in.limit
  /\ "e-acute" \in Range(fn.in.text)
  /\ Len(sink[1].json.input_parameters) = fn.in.limit + 1

\* C25: with audit disabled no invocation writes to the sink, while the
\* audit middleware still builds its entry and hands on what the inner
\* pipeline produced, the response or the raised error, as it does with
\* audit enabled.
C25_DisabledIsNoOp ==
  [][\A r \in Reqs :
       AuditStep(r) =>
         /\ ret'[r] = ret[r]
         /\ Len(calls'[r]) = Len(calls[r]) + 1
         /\ ~config.auditEnabled => sink' = sink /\ sink = <<>>]_vars

C25_Witness ==
  /\ ~config.auditEnabled
  /\ sink = <<>>
  /\ \A r \in Reqs : Done(r) /\ Len(calls[r]) = 1
  /\ \E r \in Reqs : ret[r].kind = "throw"
  /\ \E r \in Reqs : ret[r].kind = "return" /\ ret[r].value.shape = "content"

\* the write holds the whole of the entry and the line break behind it
\* (the input parameters as the logger cut them)
WholeLineOf(write, entry) ==
  /\ write.end = NEWLINE
  /\ [write.json EXCEPT !.input_parameters = entry.input_parameters] = entry

\* the logger.log calls of all invocations: request and position
LogCalls == {c \in Reqs \X (1..1) : c[2] <= Len(calls[c[1]])}

\* C26: every write to the shared sink is one whole line, the entry of one
\* invocation with its line break, so that under every interleaving the
\* sink holds as many lines for an entry as there are invocations that
\* logged it.
C26_WholeLines ==
  config.auditEnabled =>
    /\ Len(sink) = Cardinality(LogCalls)
    /\ \A i \in 1..Len(sink) :
         LET owners == {c \in LogCalls : WholeLineOf(sink[i], calls[c[1]][c[2]])}
         IN /\ owners # {}
            /\ Cardinality(owners)
                 = Cardinality({k \in 1..Len(sink) : sink[k] = sink[i]})

C26_Witness ==
  /\ config.auditEnabled
  /\ Len(sink) = NumReqs
  /\ \A r \in Reqs : Done(r)
  /\ sink[1].json.status = "error"
  /\ sink[2].json.status = "success"
  /\ sink[2].json.redaction_count > 0

\* C27: the resource middleware returns as many items as upstream gave, in
\* the same order; a blob item is the upstream item, a text item is the
\* upstream item with the redacted text of that same item, in whatever
\* order the redactions ended; the request gets no annotation.
C27_ResourceItemsInPlace ==
  /\ res.req._piiRedaction = NoSummary
  /\ (res.pc = "done" /\ res.ret.kind = "return") =>
       /\ Len(res.ret.contents) = Len(res.upstream)
       /\ \A i \in 1..Len(res.upstream) :
            LET item == res.upstream[i]
                out == res.ret.contents[i]
            IN IF item.hasText
               THEN \E o \in redactTextOutcomes(item.text, profile, config) :
                      /\ o.kind = "return"
                      /\ out = [item EXCEPT !.text = o.value.redactedData]
               ELSE out = item

C27_Witness ==
  /\ res.pc = "done"
  /\ res.ret.kind = "return"
  /\ res.settled = <<2, 1>>
  /\ res.upstream = <<TextItem(<<EMAIL, PLAIN>>), TextItem(<<PERSON, SSN>>)>>
  /\ res.ret.contents = <<TextItem(<<EMAIL_MASK, PLAIN>>),
                          TextItem(RedactedLiteral("NAME") \o <<SSN_MASK>>)>>

\* the stage-1 counts of the text blocks of a content, summed
RECURSIVE StageOneSum(_, _)
StageOneSum(content, i) ==
  IF i > Len(content) THEN 0
  ELSE (IF content[i].type = "text"
        THEN redactPII(content[i].text).redactionCount ELSE 0)
         + StageOneSum(content, i + 1)

NoDuplicates(types) ==
  \A j, k \in 1..Len(types) : types[j] = types[k] => j = k

\* the step in which the walk of request r takes in the result of a block
MergeStep(r) == pc[r] = "redact" /\ walk'[r] # walk[r]

\* C28: during the walk of one response the accumulated count never
\* decreases and the accumulated types never lose a member; every block adds
\* its own count and its types, without duplicates, to what was accumulated
\* from zero, and the annotation attached at the end is what was accumulated.
C28_SummaryMonotone ==
  [][\A r \in Reqs :
       LET acc == walk[r].accumulated
           next == walk'[r].accumulated
           block == walk[r].pending
       IN /\ (~walk[r].started /\ walk'[r].started) =>
               next = [redactionCount |-> 0, redactedTypes |-> <<>>]
          /\ walk[r].started =>
               /\ next.redactionCount >= acc.redactionCount
               /\ Range(acc.redactedTypes) \subseteq Range(next.redactedTypes)
          /\ MergeStep(r) =>
               /\ next.redactionCount =
                    acc.redactionCount + block.redactionCount
               /\ Range(next.redactedTypes) =
                    Range(acc.redactedTypes) \cup Range(block.redactedTypes)
               /\ NoDuplicates(next.redactedTypes)
          /\ (~walk[r].finished /\ walk'[r].finished) =>
               /\ req'[r]._piiRedaction =
                    Summary(next.redactionCount, next.redactedTypes)
               /\ LET plan == redactTextPlan(profile, config)
                      sum == StageOneSum(upstream[r].content, 1)
                  IN CASE plan = "none" -> next.redactionCount = 0
                       [] plan = "regex" -> next.redactionCount = sum
                       [] plan = "deep" -> next.redactionCount >= sum]_vars

\* both blocks of a response had an e-mail address masked: two redactions,
\* one type
C28_Witness ==
  \E r \in Reqs :
    /\ walk[r].finished
    /\ Len(upstream[r].content) = 2
    /\ \A j \in 1..2 : /\ upstream[r].content[j].type = "text"
                       /\ redactPII(upstream[r].content[j].text).redactionCount = 1
    /\ req[r]._piiRedaction = Summary(2, <<"email">>)

\* the characters of a chunk that lie inside one of the spans
Covered(text, entities) ==
  { text[i + 1] : i \in { j \in 0..(Len(text) - 1) :
      \E e \in Range(entities) : e.BeginOffset <= j /\ j < e.EndOffset } }

\* a string made of characters of the chunk and whole placeholders only
RECURSIVE WholePlaceholders(_, _)
WholePlaceholders(s, text) ==
  IF s = <<>> THEN TRUE
  ELSE IF Head(s) \in Range(text) THEN WholePlaceholders(Tail(s), text)
       ELSE \E type \in {"NAME", "ADDRESS"} :
              /\ IsPrefix(RedactedChars(type), s)
              /\ WholePlaceholders(SliceFrom(s, Len(RedactedChars(type))), text)

\* C29: whatever spans with valid offsets are reported for a chunk, also
\* overlapping or nested ones or ones with the same begin offset, no
\* character of the chunk inside a span is left in the output and every
\* placeholder of the output is a whole [REDACTED:<TYPE>].
C29_SpansGoneWhenOverlapping ==
  Applied("applyRedactionsChars") =>
    /\ Range(fn.out.redacted) \cap Covered(fn.in.text, fn.in.entities) = {}
    /\ WholePlaceholders(fn.out.redacted, fn.in.text)

\* C30: chunkText ends for every text: each iteration of the loop that cuts
\* an over-long line makes the remaining text shorter, every call reaches
\* its return, and what it returns is the list of chunks of chunkText.
C30_ChunkTextTerminates ==
  /\ [][(chunker.pc = "split" /\ chunker'.pc = "split") =>
          Len(chunker'.remaining) < Len(chunker.remaining)]_vars
  /\ <>(chunker.pc = "done")
  /\ [](chunker.pc = "done" =>
          chunker.chunks = chunkTextL(chunker.text, chunker.limit))

\* a line of four characters was cut twice at a limit of two bytes
C30_Witness ==
  /\ chunker.pc = "done"
  /\ chunker.limit = 2
  /\ chunker.text = <<"a", "a", "e-acute", "a">>
  /\ chunker.chunks = <<<<"a", "a">>, <<"e-acute">>, <<"a">>>>

====
